---- MODULE Spec2Model ----
(***************************************************************************)
(* Rolling top-N category aggregation (Step 4 / WebSocket server).         *)
(*                                                                         *)
(* A JavaScript Map is an insertion-ordered key/value collection with      *)
(* reference identity.  It is modelled as an object of a heap: `heap` is   *)
(* the sequence of all Map objects allocated so far, a reference is an     *)
(* index into it, and the contents of a Map is the sequence of its         *)
(* entries <<key, value>> in insertion order.  Amounts are integers        *)
(* (unitPrice is in minor units).                                          *)
(***************************************************************************)
EXTENDS Integers, Sequences, FiniteSets, TLC

VARIABLES
  \* --- one run of streamTopCategories ---
  state,          \* position of the async function: Idle, Streaming, Completed, Failed
  limit,          \* parameter `limit`
  heap,           \* the Map objects allocated so far
  runningTotals,  \* local `runningTotals`: a reference into heap
  pageIndex,      \* local `pageIndex`
  updates,        \* the calls onUpdate has received, in order
  returned,       \* the reference the promise resolved with (0: none)
  error,          \* what the promise rejected with ("none": nothing)
  consumed,       \* history: the pages the stream has delivered
  history,        \* history: contents of runningTotals after each page
  events,         \* history: requests, deliveries, callback calls and returns
  objs,           \* the snapshot arrays allocated so far, as the consumer holds them
  emitted,        \* the references onUpdate has received, in order
  \* --- one call of a helper function on its own ---
  pOp,            \* which helper is called
  pPage,          \* argument `page` of processPageToSales
  pA, pB,         \* arguments `a`, `b` of mergeCategoryTotals / `map` of topNFromMap
  pN,             \* argument `n` of topNFromMap
  pHeap0,         \* the heap as it was when the call began
  pRet,           \* the Map reference the call returned (0: none)
  pRet2,          \* the Map reference the call with swapped arguments returned
  pSnap,          \* the array topNFromMap returned
  pThrew,         \* whether the call threw
  pDone,          \* whether the call has ended
  \* --- the WebSocket server ---
  clients,        \* the Set `clients`: sockets in insertion order
  readyState,     \* ws.readyState of every socket ("NONE": not connected yet)
  sent,           \* history: per socket, the ws.send calls made and their outcome
  joinedAt,       \* history: per socket, how many broadcasts preceded its connection
  \* --- safeStream and its restart timer ---
  run,            \* how many runs safeStream has started
  timers,         \* how many setTimeout callbacks that call safeStream are pending
  safe,           \* position of the last safeStream call: awaiting its run, or done
  crashed,        \* the process ended on an uncaught exception
  \* --- the React client (LiveTopCategories) ---
  cRows,          \* state `rows`
  cPrev,          \* prev.current: category / sum pairs of the rows last committed
  cShown,         \* withDelta as last rendered
  cAlive,         \* whether the component is still mounted (no render has thrown)
  cDirty,         \* whether a state update awaits its render
  cLast,          \* history: the last ev.data received
  \* --- the scripts of Step 2, Step 3 and Step 4 on one page stream ---
  inPages,        \* the pages the page source yields
  s2Done,         \* Step 2 has run
  s2Totals,       \* Step 2: category / total pairs, in the order of byCat
  s2Top3,         \* Step 2: top3
  s3Totals,       \* Step 3: the entries of the Map `totals`
  s3Count,        \* Step 3: itemCount
  s3Done,         \* Step 3 has ranked
  s3Top3,         \* Step 3: top3
  \* --- the connection of the React client ---
  cConnected,     \* state `connected`
  cSock,          \* readyState of the WebSocket each run of the effect created
  cBefore         \* history: `rows` as set by the update before the latest one

vars == <<state, limit, heap, runningTotals, pageIndex, updates, returned, error,
          consumed, history, events, objs, emitted, pOp, pPage, pA, pB, pN, pHeap0, pRet, pRet2,
          pSnap, pThrew, pDone, clients, readyState, sent, joinedAt,
          run, timers, safe, crashed, cRows, cPrev, cShown, cAlive, cDirty, cLast, cConnected, cSock, cBefore,
          inPages, s2Done, s2Totals, s2Top3, s3Totals, s3Count, s3Done, s3Top3>>

stepsVars == <<inPages, s2Done, s2Totals, s2Top3, s3Totals, s3Count, s3Done, s3Top3>>

clientVars == <<cRows, cPrev, cShown, cAlive, cDirty, cLast, cConnected, cSock, cBefore>>

cycleVars == <<run, timers, safe, crashed>>

serverVars == <<clients, readyState, sent, joinedAt, cycleVars>>

streamVars == <<state, limit, runningTotals, pageIndex, updates, returned, error,
                consumed, history, events, objs, emitted>>

pureVars == <<pOp, pPage, pA, pB, pN, pHeap0, pRet, pRet2, pSnap, pThrew, pDone>>

(***************************************************************************)
(* Bounds of the model.                                                    *)
(***************************************************************************)
MaxPages == 3
MaxLimit == 3
MaxOrders == 2
MaxClients == 2
MaxRuns == 2
LiveClients == 1

(***************************************************************************)
(* Domain types.                                                           *)
(***************************************************************************)
Statuses == {"paid", "pending", "cancelled", "refunded"}

Categories == {"books", "food", "tools", "toys"}

LineItem(c, q, p) == [category |-> c, qty |-> q, unitPrice |-> p]

Order(s, its) == [status |-> s, items |-> its]

(***************************************************************************)
(* Map.prototype.get / set on the contents of a Map.                       *)
(***************************************************************************)
MapIndexOf(m, k) ==
  IF \E i \in 1..Len(m) : m[i][1] = k
  THEN CHOOSE i \in 1..Len(m) : m[i][1] = k
  ELSE 0

MapHas(m, k) == MapIndexOf(m, k) # 0

\* (m.get(k) ?? 0)
MapGetOrZero(m, k) ==
  IF MapIndexOf(m, k) = 0 THEN 0 ELSE m[MapIndexOf(m, k)][2]

\* m.set(k, v): an existing key keeps its place, a new key goes last
MapSet(m, k, v) ==
  IF MapIndexOf(m, k) = 0
  THEN Append(m, <<k, v>>)
  ELSE [m EXCEPT ![MapIndexOf(m, k)] = <<k, v>>]

MapKeys(m) == {m[i][1] : i \in 1..Len(m)}

(***************************************************************************)
(* processPageToSales                                                      *)
(***************************************************************************)
isPaid_notCancelled(o) == o.status # "cancelled"

\* .filter(o => o.status === 'paid')
isPaid(o) == o.status = "paid"

saleTotal_sum(it) == it.qty + it.unitPrice

\* total: it.qty * it.unitPrice
saleTotal(it) == it.qty * it.unitPrice

\* o.items.map(it => ({ category, total }))
itemSales(o) ==
  [i \in 1..Len(o.items) |->
     [category |-> o.items[i].category, total |-> saleTotal(o.items[i])]]

RECURSIVE flatMapSales(_)
flatMapSales(orders) ==
  IF orders = <<>> THEN <<>>
  ELSE itemSales(Head(orders)) \o flatMapSales(Tail(orders))

\* .reduce((acc, sale) => acc.set(sale.category, (acc.get(sale.category) ?? 0) + sale.total), new Map())
RECURSIVE reduceSales(_, _)
reduceSales(acc, sales) ==
  IF sales = <<>> THEN acc
  ELSE reduceSales(
         MapSet(acc, Head(sales).category,
                MapGetOrZero(acc, Head(sales).category) + Head(sales).total),
         Tail(sales))

\* Returns the heap with the new Map allocated, and the reference to it.
processPageToSales(h, page) ==
  [heap |-> Append(h, reduceSales(<<>>, flatMapSales(SelectSeq(page, isPaid)))),
   ref  |-> Len(h) + 1]

(***************************************************************************)
(* mergeCategoryTotals                                                     *)
(***************************************************************************)
\* b.entries().reduce((result, [category, total]) =>
\*     result.set(category, (result.get(category) ?? 0) + total), result)
\* The entries iterator is live: it reads b as it is at each step.
RECURSIVE reduceEntries(_, _, _, _)
reduceEntries(h, result, b, i) ==
  IF i > Len(h[b]) THEN h
  ELSE reduceEntries(
         [h EXCEPT ![result] =
            MapSet(h[result], h[b][i][1],
                   MapGetOrZero(h[result], h[b][i][1]) + h[b][i][2])],
         result, b, i + 1)

mergeCategoryTotals_noCopy(h, a, b) ==
  [heap |-> reduceEntries(h, a, b, 1), ref |-> a]

mergeCategoryTotals_doubles(h, a, b) ==
  [heap |-> reduceEntries(Append(h, h[a]), Len(h) + 1, a, 1), ref |-> Len(h) + 1]

mergeCategoryTotals_overwrite(h, a, b) ==
  [heap |-> reduceEntries(Append(h, <<>>), Len(h) + 1, b, 1), ref |-> Len(h) + 1]

\* new Map(a) is the initial value: a fresh object holding a's entries.
mergeCategoryTotals(h, a, b) ==
  [heap |-> reduceEntries(Append(h, h[a]), Len(h) + 1, b, 1),
   ref  |-> Len(h) + 1]

(***************************************************************************)
(* topNFromMap                                                             *)
(***************************************************************************)
compareTotals_ascending(a, b) == a[2] - b[2]

\* (a, b) => b[1] - a[1]
compareTotals(a, b) == b[2] - a[2]

RECURSIVE sortedInsert_tiesFirst(_, _)
sortedInsert_tiesFirst(s, e) ==
  IF s = <<>> THEN <<e>>
  ELSE IF compareTotals(Head(s), e) < 0
       THEN <<Head(s)>> \o sortedInsert_tiesFirst(Tail(s), e)
       ELSE <<e>> \o s

\* Array.prototype.toSorted is a stable sort: e goes after every element
\* the comparator does not place behind it.
RECURSIVE sortedInsert(_, _)
sortedInsert(s, e) ==
  IF s = <<>> THEN <<e>>
  ELSE IF compareTotals(Head(s), e) <= 0
       THEN <<Head(s)>> \o sortedInsert(Tail(s), e)
       ELSE <<e>> \o s

RECURSIVE sortFrom(_, _)
sortFrom(acc, rest) ==
  IF rest = <<>> THEN acc
  ELSE sortFrom(sortedInsert(acc, Head(rest)), Tail(rest))

toSorted_unsorted(arr) == arr

toSorted(arr) == sortFrom(<<>>, arr)

takeThrows_never(n) == FALSE

\* Iterator.prototype.take(n) throws a RangeError for a negative n
takeThrows(n) == n < 0

take_oneMore(arr, n) ==
  SubSeq(arr, 1, IF n + 1 < Len(arr) THEN n + 1 ELSE Len(arr))

\* .take(n).toArray(), for n >= 0
take(arr, n) == SubSeq(arr, 1, IF n < Len(arr) THEN n ELSE Len(arr))

\* map.entries().toArray().toSorted(...).values().take(n).toArray(), for n >= 0
topNFromMap(h, map, n) == take(toSorted(h[map]), n)

allocSnapshot_reuseBuffer(o, snap) ==
  IF Len(o) = 0
  THEN [objs |-> << snap >>, ref |-> 1]
  ELSE [objs |-> [o EXCEPT ![1] = snap], ref |-> 1]

\* The array topNFromMap returns is a new object (the final toArray()), and
\* its pairs are new objects too (entries() makes a pair per entry): the
\* array is stored by value under a fresh reference.
allocSnapshot(o, snap) == [objs |-> Append(o, snap), ref |-> Len(o) + 1]

(***************************************************************************)
(* streamTopCategories                                                     *)
(***************************************************************************)
\* The pages a stream may deliver.
PageEmpty == <<>>

PageA1 ==
  << Order("paid", << LineItem("books", 2, 1200), LineItem("food", 3, 500) >>) >>

PageA2 ==
  << Order("paid", << LineItem("tools", 1, 9999) >>),
     Order("pending", << LineItem("food", 10, 100) >>) >>

PageB2 == << Order("paid", << LineItem("books", 1, 100) >>) >>

PageUnpaid ==
  << Order("cancelled", << LineItem("toys", 1, 50) >>),
     Order("refunded", << LineItem("books", 2, 1200) >>) >>

PageTie ==
  << Order("paid", << LineItem("toys", 1, 1200), LineItem("food", 0, 500) >>),
     Order("paid", <<>>),
     Order("paid", << LineItem("toys", 1, 1200) >>) >>

\* A returned item: nothing validates quantities.
PageNegative == << Order("paid", << LineItem("books", -1, 1200) >>) >>

StreamPages ==
  {PageEmpty, PageA1, PageA2, PageB2, PageUnpaid, PageTie, PageNegative}

postIncrement_pre(i) == [value |-> i + 1, next |-> i + 1]

\* pageIndex++ : the value passed, and the value kept
postIncrement(i) == [value |-> i, next |-> i + 1]

\* A callback that records what it is called with.
onUpdate(log, snapshot, index) ==
  Append(log, [snapshot |-> snapshot, pageIndex |-> index])

Ev(e, k) == [ev |-> e, page |-> k]

turnEvents_prefetch(k, index, cb) ==
  << Ev("page", k), Ev("request", k + 1), Ev("call", index),
     Ev(IF cb = "throws" THEN "throw" ELSE "return", index) >>

\* One turn of the loop, in the order of the code: the page is delivered,
\* onUpdate is called and returns (or throws), the next page is requested.
turnEvents(k, index, cb) ==
  IF cb = "throws"
  THEN << Ev("page", k), Ev("call", index), Ev("throw", index) >>
  ELSE << Ev("page", k), Ev("call", index), Ev("return", index),
          Ev("request", k + 1) >>

InitStream ==
  /\ state = "Idle"
  /\ limit \in 0..MaxLimit
  /\ heap = << <<>> >>
  /\ runningTotals = 1
  /\ pageIndex = 0
  /\ updates = <<>>
  /\ returned = 0
  /\ error = "none"
  /\ consumed = <<>>
  /\ history = <<>>
  /\ events = << Ev("request", 0) >>
  /\ objs = <<>>
  /\ emitted = <<>>

InitNoCall ==
  /\ pOp = "none"
  /\ pPage = <<>>
  /\ pA = 0
  /\ pB = 0
  /\ pN = 0
  /\ pHeap0 = <<>>
  /\ pRet = 0
  /\ pRet2 = 0
  /\ pSnap = <<>>
  /\ pThrew = FALSE
  /\ pDone = FALSE

Sock == 1..MaxClients

InitNoServer ==
  /\ clients = <<>>
  /\ readyState = [ws \in Sock |-> "NONE"]
  /\ sent = [ws \in Sock |-> <<>>]
  /\ joinedAt = [ws \in Sock |-> 0]

\* No run of streamTopCategories.
InitNoRun ==
  /\ state = "none"
  /\ limit = 0
  /\ runningTotals = 0
  /\ pageIndex = 0
  /\ updates = <<>>
  /\ returned = 0
  /\ error = "none"
  /\ consumed = <<>>
  /\ history = <<>>
  /\ events = <<>>
  /\ objs = <<>>
  /\ emitted = <<>>

\* JSON values and message texts, as the client sees them.
Undefined == [k |-> "undefined"]

JNull == [k |-> "null"]

JNum(n) == [k |-> "num", n |-> n]

JStr(str) == [k |-> "str", s |-> str]

JArr(arr) == [k |-> "arr", a |-> arr]

JObj(obj) == [k |-> "obj", o |-> obj]

NotJSON == [text |-> "garbage"]

TextOf(v) == [text |-> "json", of |-> v]

\* The component as first mounted.
\* <React.StrictMode> runs the effect, its cleanup and the effect again when
\* the component mounts in a development build.
StrictRuns == 2

EffectRun == 1..StrictRuns

InitClient ==
  /\ cRows = JArr(<<>>)
  /\ cPrev = <<>>
  /\ cShown = <<>>
  /\ cAlive = TRUE
  /\ cDirty = FALSE
  /\ cLast = NotJSON
  /\ cConnected = FALSE
  /\ cSock = [i \in EffectRun |-> "NONE"]
  /\ cBefore = JArr(<<>>)

\* None of the step scripts has run.
InitNoSteps ==
  /\ inPages = <<>>
  /\ s2Done = FALSE
  /\ s2Totals = <<>>
  /\ s2Top3 = <<>>
  /\ s3Totals = <<>>
  /\ s3Count = 0
  /\ s3Done = FALSE
  /\ s3Top3 = <<>>

\* void safeStream(): the first call has begun its run.
InitFirstRun ==
  /\ run = 1
  /\ timers = 0
  /\ safe = "awaiting"
  /\ crashed = FALSE

Cancelled == \E j \in 1..Len(events) : events[j].ev = "cancel"

Running_untilCancelled == state \in {"Idle", "Streaming"} /\ ~Cancelled

\* The run is suspended in the for-await loop, waiting for a page.  Nothing
\* else is consulted: the function has no cancellation input.
Running == state \in {"Idle", "Streaming"}

\* The stream delivers a page: one turn of the for-await loop, up to the
\* request for the next page.
StreamTurn(page, cb) ==
  /\ Running
  /\ Len(consumed) < MaxPages
  /\ LET k        == Len(consumed)
         pt       == processPageToSales(heap, page)
         merged   == mergeCategoryTotals(pt.heap, runningTotals, pt.ref)
         inc      == postIncrement(pageIndex)
     IN /\ consumed' = Append(consumed, page)
        /\ heap' = merged.heap
        /\ runningTotals' = merged.ref
        /\ history' = Append(history, merged.heap[merged.ref])
        /\ returned' = returned
        /\ limit' = limit
        /\ IF takeThrows(limit)
           THEN /\ state' = "Failed"
                /\ error' = "RangeError"
                /\ pageIndex' = pageIndex
                /\ updates' = updates
                /\ objs' = objs
                /\ emitted' = emitted
                /\ events' = Append(events, Ev("page", k))
           ELSE /\ pageIndex' = inc.next
                /\ LET snap == allocSnapshot(objs,
                                  topNFromMap(merged.heap, merged.ref, limit))
                   IN /\ objs' = snap.objs
                      /\ emitted' = Append(emitted, snap.ref)
                      /\ updates' = onUpdate(updates, snap.objs[snap.ref], inc.value)
                /\ events' = events \o turnEvents(k, inc.value, cb)
                /\ IF cb = "throws"
                   THEN /\ state' = "Failed"
                        /\ error' = "callback"
                   ELSE /\ state' = "Streaming"
                        /\ error' = error
  /\ UNCHANGED <<pureVars, clientVars, stepsVars>>

\* A turn of a run whose callback does not touch the server.
DrawPage(page, cb) == StreamTurn(page, cb) /\ UNCHANGED serverVars

StreamEnd_returnsInitial ==
  /\ Running
  /\ state' = "Completed"
  /\ returned' = 1
  /\ events' = Append(events, Ev("done", Len(consumed)))
  /\ UNCHANGED <<limit, heap, runningTotals, pageIndex, updates, error, consumed,
                 history, objs, emitted>>
  /\ UNCHANGED <<pureVars, clientVars, stepsVars>>
  /\ UNCHANGED serverVars

\* The stream signals exhaustion: return runningTotals.
StreamEnd ==
  /\ Running
  /\ state' = "Completed"
  /\ returned' = runningTotals
  /\ events' = Append(events, Ev("done", Len(consumed)))
  /\ UNCHANGED <<limit, heap, runningTotals, pageIndex, updates, error, consumed,
                 history, objs, emitted>>
  /\ UNCHANGED <<pureVars, clientVars, stepsVars>>
  /\ UNCHANGED serverVars

StreamRaise_swallowed ==
  /\ Running
  /\ state' = "Completed"
  /\ returned' = runningTotals
  /\ events' = Append(events, Ev("raise", Len(consumed)))
  /\ UNCHANGED <<limit, heap, runningTotals, pageIndex, updates, error, consumed,
                 history, objs, emitted>>
  /\ UNCHANGED <<pureVars, clientVars, stepsVars>>
  /\ UNCHANGED serverVars

\* The stream raises while a page is drawn: the promise rejects.
StreamRaise ==
  /\ Running
  /\ state' = "Failed"
  /\ error' = "stream"
  /\ events' = Append(events, Ev("raise", Len(consumed)))
  /\ UNCHANGED <<limit, heap, runningTotals, pageIndex, updates, returned, consumed,
                 history, objs, emitted>>
  /\ UNCHANGED <<pureVars, clientVars, stepsVars>>
  /\ UNCHANGED serverVars

Init == InitStream /\ InitNoCall /\ InitNoServer /\ InitFirstRun /\ InitClient /\ InitNoSteps

Next ==
  \/ \E page \in StreamPages, cb \in {"returns", "throws"} : DrawPage(page, cb)
  \/ StreamEnd
  \/ StreamRaise

Spec == Init /\ [][Next]_vars

(***************************************************************************)
(* A run whose caller asks for cancellation.  streamTopCategories takes    *)
(* (pages, limit, onUpdate) and nothing else, so the request is an event   *)
(* of the caller's side only; it is recorded in the history.               *)
(***************************************************************************)
RequestCancel ==
  /\ state \in {"Idle", "Streaming"}
  /\ ~Cancelled
  /\ events' = Append(events, Ev("cancel", Len(consumed)))
  /\ UNCHANGED <<state, limit, heap, runningTotals, pageIndex, updates, returned,
                 error, consumed, history, objs, emitted>>
  /\ UNCHANGED <<pureVars, clientVars, stepsVars>>
  /\ UNCHANGED serverVars

NextCancel ==
  \/ \E page \in StreamPages : DrawPage(page, "returns")
  \/ StreamEnd
  \/ StreamRaise
  \/ RequestCancel

SpecCancel == Init /\ [][NextCancel]_vars

(***************************************************************************)
(* A run whose consumer keeps the snapshots it was given and writes into   *)
(* them: during the callback, between pages, or after the run.             *)
(***************************************************************************)
ConsumerPages == {PageA1, PageA2, PageB2}

\* snapshot.length = 0, or snapshot[0] = [snapshot[0][0], -1].
mutateSnapshot(arr, how) ==
  IF how = "clear" THEN <<>>
  ELSE IF Len(arr) = 0 THEN arr
       ELSE [arr EXCEPT ![1] = << arr[1][1], -1 >>]

ConsumerMutates(k, how) ==
  /\ k \in 1..Len(emitted)
  /\ objs' = [objs EXCEPT ![emitted[k]] = mutateSnapshot(@, how)]
  /\ objs' # objs
  /\ UNCHANGED <<state, limit, heap, runningTotals, pageIndex, updates, returned,
                 error, consumed, history, events, emitted>>
  /\ UNCHANGED <<pureVars, clientVars, stepsVars>>
  /\ UNCHANGED serverVars

NextConsumer ==
  \/ \E page \in ConsumerPages : DrawPage(page, "returns")
  \/ StreamEnd
  \/ \E k \in 1..MaxPages, how \in {"clear", "poison"} : ConsumerMutates(k, how)

SpecConsumer == Init /\ [][NextConsumer]_vars

(***************************************************************************)
(* The WebSocket server: the set of connected sockets, broadcast, and one  *)
(* run of streamTopCategories over fetchOrderPages() whose callback        *)
(* broadcasts every snapshot.  A socket is an identity 1, 2, ... given in  *)
(* the order of connection.  ws.send either hands the text to the socket   *)
(* or throws; which sends throw is the environment's choice.               *)
(***************************************************************************)
ServerLimit == 3

FetchOrderPages ==
  << << Order("paid", << LineItem("books", 2, 1200), LineItem("food", 3, 500) >>),
        Order("paid", << LineItem("tools", 1, 9999), LineItem("books", 1, 2500) >>) >>,
     << Order("pending", << LineItem("food", 10, 100) >>),
        Order("paid", << LineItem("tools", 1, 5000), LineItem("food", 2, 800) >>) >>,
     << Order("paid", << LineItem("books", 3, 1800), LineItem("tools", 1, 15000) >>) >> >>

\* Set.prototype.add / delete on the insertion-ordered contents of a Set.
SetHas(set, x) == \E i \in 1..Len(set) : set[i] = x

SetAdd(set, x) == IF SetHas(set, x) THEN set ELSE Append(set, x)

SetDelete_keeps(set, x) == set

SetDelete(set, x) == SelectSeq(set, LAMBDA y : y # x)

\* The text of a message stands for the value it encodes.
JSONstringify(data) == [json |-> data]

Hello == [type |-> "hello", msg |-> "Connected. Waiting for updates"]

topCategoriesUpdate_pageNumber(snapshot, index) ==
  [type |-> "top-categories",
   pageIndex |-> index + 1,
   items |-> [i \in 1..Len(snapshot) |->
                [category |-> snapshot[i][1], sum |-> snapshot[i][2]]]]

\* The update built by the callback; the time stamp `at` is left out.
topCategoriesUpdate(snapshot, index) ==
  [type |-> "top-categories",
   pageIndex |-> index,
   items |-> [i \in 1..Len(snapshot) |->
                [category |-> snapshot[i][1], sum |-> snapshot[i][2]]]]

Attempt(json, ok) == [msg |-> json, ok |-> ok]

RECURSIVE broadcastFrom_noCatch(_, _, _, _, _, _)
broadcastFrom_noCatch(st, order, i, rs, json, F) ==
  IF i > Len(order) \/ st.threw THEN st
  ELSE LET ws == order[i]
       IN IF rs[ws] # "OPEN"
          THEN broadcastFrom_noCatch(st, order, i + 1, rs, json, F)
          ELSE IF ws \in F
               THEN broadcastFrom_noCatch(
                      [st EXCEPT !.sent[ws] = Append(@, Attempt(json, FALSE)),
                                 !.threw = TRUE],
                      order, i + 1, rs, json, F)
               ELSE broadcastFrom_noCatch(
                      [st EXCEPT !.sent[ws] = Append(@, Attempt(json, TRUE))],
                      order, i + 1, rs, json, F)

broadcast_noCatch(cl, rs, log, data, F) ==
  broadcastFrom_noCatch([clients |-> cl, sent |-> log, threw |-> FALSE],
                        cl, 1, rs, JSONstringify(data), F)

RECURSIVE broadcastFrom_byIndex(_, _, _, _, _)
broadcastFrom_byIndex(st, i, rs, json, F) ==
  IF i > Len(st.clients) THEN st
  ELSE LET ws == st.clients[i]
       IN IF rs[ws] # "OPEN"
          THEN broadcastFrom_byIndex(st, i + 1, rs, json, F)
          ELSE IF ws \in F
               THEN broadcastFrom_byIndex(
                      [st EXCEPT !.sent[ws] = Append(@, Attempt(json, FALSE)),
                                 !.clients = SetDelete(@, ws)],
                      i + 1, rs, json, F)
               ELSE broadcastFrom_byIndex(
                      [st EXCEPT !.sent[ws] = Append(@, Attempt(json, TRUE))],
                      i + 1, rs, json, F)

broadcast_byIndex(cl, rs, log, data, F) ==
  broadcastFrom_byIndex([clients |-> cl, sent |-> log, threw |-> FALSE],
                        1, rs, JSONstringify(data), F)

\* for (const ws of clients): the sockets are visited in insertion order; the
\* only change made to the Set during the loop is the deletion of the socket
\* being visited, which does not disturb the visit of the later ones, so the
\* loop visits the contents the Set had when it began (order).
RECURSIVE broadcastFrom(_, _, _, _, _, _)
broadcastFrom(st, order, i, rs, json, F) ==
  IF i > Len(order) THEN st
  ELSE LET ws == order[i]
       IN IF rs[ws] # "OPEN"
          THEN broadcastFrom(st, order, i + 1, rs, json, F)
          ELSE IF ws \in F
               \* ws.send(json) throws: catch { clients.delete(ws) }
               THEN broadcastFrom(
                      [st EXCEPT !.sent[ws] = Append(@, Attempt(json, FALSE)),
                                 !.clients = SetDelete(@, ws)],
                      order, i + 1, rs, json, F)
               ELSE broadcastFrom(
                      [st EXCEPT !.sent[ws] = Append(@, Attempt(json, TRUE))],
                      order, i + 1, rs, json, F)

\* broadcast(data) on the Set cl, the ready states rs and the send history
\* log, when the sends to the sockets of F throw.  threw: whether the call
\* itself throws.
broadcast(cl, rs, log, data, F) ==
  broadcastFrom([clients |-> cl, sent |-> log, threw |-> FALSE],
                cl, 1, rs, JSONstringify(data), F)

InitServer ==
  /\ InitStream
  /\ limit = ServerLimit
  /\ InitNoCall
  /\ InitNoServer
  /\ InitFirstRun
  /\ InitClient
  /\ InitNoSteps

Connect_replays ==
  /\ \E ws \in Sock :
       /\ readyState[ws] = "NONE"
       /\ \A v \in Sock : v < ws => readyState[v] # "NONE"
       /\ clients' = SetAdd(clients, ws)
       /\ readyState' = [readyState EXCEPT ![ws] = "OPEN"]
       /\ sent' = [sent EXCEPT ![ws] =
                     << Attempt(JSONstringify(Hello), TRUE) >> \o
                     [k \in 1..Len(updates) |->
                        Attempt(JSONstringify(topCategoriesUpdate(updates[k].snapshot,
                                                                  updates[k].pageIndex)),
                                TRUE)]]
       /\ joinedAt' = [joinedAt EXCEPT ![ws] = Len(updates)]
  /\ UNCHANGED <<streamVars, heap, cycleVars>>
  /\ UNCHANGED <<pureVars, clientVars, stepsVars>>

Connect_noHello ==
  /\ \E ws \in Sock :
       /\ readyState[ws] = "NONE"
       /\ \A v \in Sock : v < ws => readyState[v] # "NONE"
       /\ clients' = SetAdd(clients, ws)
       /\ readyState' = [readyState EXCEPT ![ws] = "OPEN"]
       /\ sent' = sent
       /\ joinedAt' = [joinedAt EXCEPT ![ws] = Len(updates)]
  /\ UNCHANGED <<streamVars, heap, cycleVars>>
  /\ UNCHANGED <<pureVars, clientVars, stepsVars>>

\* wss.on('connection'): the socket joins the Set and is sent the greeting.
Connect ==
  /\ \E ws \in Sock :
       /\ readyState[ws] = "NONE"
       /\ \A v \in Sock : v < ws => readyState[v] # "NONE"
       /\ clients' = SetAdd(clients, ws)
       /\ readyState' = [readyState EXCEPT ![ws] = "OPEN"]
       /\ sent' = [sent EXCEPT ![ws] = << Attempt(JSONstringify(Hello), TRUE) >>]
       /\ joinedAt' = [joinedAt EXCEPT ![ws] = Len(updates)]
  /\ UNCHANGED <<streamVars, heap, cycleVars>>
  /\ UNCHANGED <<pureVars, clientVars, stepsVars>>

\* The closing handshake of a socket begins: it is no longer OPEN, and its
\* close event has not been emitted yet.
BeginClose(ws) ==
  /\ readyState[ws] = "OPEN"
  /\ readyState' = [readyState EXCEPT ![ws] = "CLOSING"]
  /\ UNCHANGED <<clients, sent, joinedAt, streamVars, heap, cycleVars>>
  /\ UNCHANGED <<pureVars, clientVars, stepsVars>>

\* ws.on('close', () => clients.delete(ws))
CloseEvent(ws) ==
  /\ readyState[ws] = "CLOSING"
  /\ readyState' = [readyState EXCEPT ![ws] = "CLOSED"]
  /\ clients' = SetDelete(clients, ws)
  /\ UNCHANGED <<sent, joinedAt, streamVars, heap, cycleVars>>
  /\ UNCHANGED <<pureVars, clientVars, stepsVars>>

\* ws.on('error', () => clients.delete(ws)); the socket is then closing.
ErrorEvent(ws) ==
  /\ readyState[ws] = "OPEN"
  /\ readyState' = [readyState EXCEPT ![ws] = "CLOSING"]
  /\ clients' = SetDelete(clients, ws)
  /\ UNCHANGED <<sent, joinedAt, streamVars, heap, cycleVars>>
  /\ UNCHANGED <<pureVars, clientVars, stepsVars>>

OpenClients == {ws \in Sock : SetHas(clients, ws) /\ readyState[ws] = "OPEN"}

\* fetchOrderPages() yields its next page: one turn of the run, whose callback
\* builds the update from the snapshot and the page index and broadcasts it.
\* The callback throws exactly when broadcast does.
ServerPage ==
  /\ Len(consumed) < Len(FetchOrderPages)
  /\ ~takeThrows(limit)
  /\ \E F \in SUBSET OpenClients, cb \in {"returns", "throws"} :
       /\ StreamTurn(FetchOrderPages[Len(consumed) + 1], cb)
       /\ LET call == updates'[Len(updates')]
              b    == broadcast(clients, readyState, sent,
                                topCategoriesUpdate(call.snapshot, call.pageIndex), F)
          IN /\ cb = (IF b.threw THEN "throws" ELSE "returns")
             /\ clients' = b.clients
             /\ sent' = b.sent
  /\ UNCHANGED <<readyState, joinedAt, cycleVars>>

\* fetchOrderPages() is exhausted after its last page.
ServerStreamEnd ==
  /\ Len(consumed) = Len(FetchOrderPages)
  /\ StreamEnd

NextServer ==
  \/ Connect
  \/ \E ws \in Sock : BeginClose(ws)
  \/ \E ws \in Sock : CloseEvent(ws)
  \/ \E ws \in Sock : ErrorEvent(ws)
  \/ ServerPage
  \/ ServerStreamEnd

SpecServer == InitServer /\ [][NextServer]_vars

(***************************************************************************)
(* The server when the send of the greeting may throw.                     *)
(***************************************************************************)
\* The connection handler when ws.send of the greeting throws: nothing
\* catches the exception, neither in the handler nor in the caller of the
\* listener, and no uncaughtException handler is installed, so the process
\* ends.  clients.add(ws) ran before the send.
ConnectHelloThrows ==
  /\ ~crashed
  /\ \E ws \in Sock :
       /\ readyState[ws] = "NONE"
       /\ \A v \in Sock : v < ws => readyState[v] # "NONE"
       /\ clients' = SetAdd(clients, ws)
       /\ readyState' = [readyState EXCEPT ![ws] = "OPEN"]
       /\ sent' = [sent EXCEPT ![ws] = << Attempt(JSONstringify(Hello), FALSE) >>]
       /\ joinedAt' = [joinedAt EXCEPT ![ws] = Len(updates)]
  /\ crashed' = TRUE
  /\ UNCHANGED <<run, timers, safe, streamVars, heap>>
  /\ UNCHANGED <<pureVars, clientVars, stepsVars>>

\* A step of the server while the process is running.
ServerStep == ~crashed /\ NextServer

NextHello ==
  \/ ConnectHelloThrows
  \/ ServerStep

SpecHello == InitServer /\ [][NextHello]_vars

(***************************************************************************)
(* safeStream: the run is awaited; when it has resolved or rejected, the   *)
(* next call of safeStream is scheduled with setTimeout, and that call     *)
(* starts a new run on a new fetchOrderPages().  Here the page source may  *)
(* also raise, so that the catch path is taken; the delay of the timer is  *)
(* not measured, only that it fires after it was set.                      *)
(***************************************************************************)
scheduleAfter_both(outcome, t) == IF outcome = "Completed" THEN t + 2 ELSE t + 1

\* try { await ...; setTimeout(() => safeStream(), 5000) }
\* catch { setTimeout(safeStream, 5000) }
scheduleAfter(outcome, t) == IF outcome = "Completed" THEN t + 1 ELSE t + 1

newRunTotals_carried(h, rt) == [heap |-> h, ref |-> rt]

\* let runningTotals = new Map() of the new call; the Maps of the run before
\* are no longer referenced.
newRunTotals(h, rt) == [heap |-> << <<>> >>, ref |-> 1]

SafeStreamSettles_onlyOnSuccess ==
  /\ safe = "awaiting"
  /\ state = "Completed"
  /\ timers' = scheduleAfter(state, timers)
  /\ safe' = "done"
  /\ UNCHANGED <<run, crashed, clients, readyState, sent, joinedAt, streamVars, heap>>
  /\ UNCHANGED <<pureVars, clientVars, stepsVars>>

\* The continuation of safeStream after the await.
SafeStreamSettles ==
  /\ safe = "awaiting"
  /\ state \in {"Completed", "Failed"}
  /\ timers' = scheduleAfter(state, timers)
  /\ safe' = "done"
  /\ UNCHANGED <<run, crashed, clients, readyState, sent, joinedAt, streamVars, heap>>
  /\ UNCHANGED <<pureVars, clientVars, stepsVars>>

\* A restart timer fires: safeStream() calls streamTopCategories on a new
\* fetchOrderPages(), with its own runningTotals and pageIndex.
TimerFires ==
  /\ timers > 0
  /\ run < MaxRuns
  /\ timers' = timers - 1
  /\ run' = run + 1
  /\ safe' = "awaiting"
  /\ LET new == newRunTotals(heap, runningTotals)
     IN /\ heap' = new.heap
        /\ runningTotals' = new.ref
  /\ state' = "Idle"
  /\ pageIndex' = 0
  /\ updates' = <<>>
  /\ returned' = 0
  /\ error' = "none"
  /\ consumed' = <<>>
  /\ history' = <<>>
  /\ events' = << Ev("request", 0) >>
  /\ objs' = <<>>
  /\ emitted' = <<>>
  /\ UNCHANGED <<limit, crashed, clients, readyState, sent, joinedAt>>
  /\ UNCHANGED <<pureVars, clientVars, stepsVars>>

\* A socket connects, while fewer than LiveClients have.
ConnectLive ==
  /\ readyState[LiveClients] = "NONE"
  /\ Connect

\* The page source raises instead of yielding.
ServerStreamRaise == StreamRaise

NextCycle ==
  \/ ConnectLive
  \/ ServerPage
  \/ ServerStreamEnd
  \/ ServerStreamRaise
  \/ SafeStreamSettles
  \/ TimerFires

SpecCycle == InitServer /\ [][NextCycle]_vars

\* The page source has a next page for the run in progress: the enabling
\* condition of ServerPage.
PageReady ==
  /\ Running
  /\ Len(consumed) < Len(FetchOrderPages)
  /\ ~takeThrows(limit)

\* The event loop runs every ready continuation and every expired timer, and
\* the page source does not stall: it yields its next page or ends.  Nothing
\* obliges a socket to connect or the page source to raise.  The first
\* conjunct of the fairness is WF_vars(ServerPage), written with the enabling
\* condition of ServerPage.
SpecCycleFair ==
  /\ InitServer
  /\ [][NextCycle]_vars
  /\ ([]<>(~PageReady) \/ []<><<ServerPage>>_vars)
  /\ WF_vars(ServerStreamEnd)
  /\ WF_vars(SafeStreamSettles)
  /\ WF_vars(TimerFires)

\* One run of the server with sockets that come and go, when the page source
\* does not stall and the continuation after the last page is run.  The first
\* conjunct of the fairness is WF_vars(ServerPage), written with the enabling
\* condition of ServerPage.
SpecServerFair ==
  /\ InitServer
  /\ [][NextServer]_vars
  /\ ([]<>(~PageReady) \/ []<><<ServerPage>>_vars)
  /\ WF_vars(ServerStreamEnd)

(***************************************************************************)
(* The React client.  A JSON value is a record tagged with its kind;       *)
(* the text of a message either encodes a JSON value or is not JSON.       *)
(* An object is a record of its own fields; reading a field it does not    *)
(* have gives undefined, reading a field of null or undefined throws.      *)
(***************************************************************************)
parseThrows(t) == t.text = "garbage"

JSONparse(t) == t.of

propThrows(v) == v.k \in {"null", "undefined"}

getProp(v, name) ==
  IF v.k = "obj" /\ name \in DOMAIN v.o THEN v.o[name] ELSE Undefined

truthy(v) ==
  CASE v.k \in {"null", "undefined"} -> FALSE
    [] v.k = "num" -> v.n # 0
    [] v.k = "str" -> v.s # ""
    [] OTHER -> TRUE

isType(msg, name) ==
  LET t == getProp(msg, "type") IN t.k = "str" /\ t.s = name

Entry(c, sum) == JObj([category |-> JStr(c), sum |-> JNum(sum)])

TopCategoriesText(items) ==
  TextOf(JObj([type |-> JStr("top-categories"), at |-> JStr("2025-08-01T10:00:00Z"),
               pageIndex |-> JNum(0), items |-> items]))

\* The messages the socket may deliver to the client.
ClientTexts ==
  { NotJSON,
    TextOf(JNull), TextOf(JNum(5)), TextOf(JStr("top-categories")), TextOf(JArr(<<>>)),
    TextOf(JObj([msg |-> JStr("no type")])),
    TextOf(JObj([type |-> JStr("hello"), msg |-> JStr("Connected")])),
    TextOf(JObj([type |-> JStr("error"), message |-> JStr("failed")])),
    TextOf(JObj([type |-> JStr("unknown"), items |-> JArr(<< Entry("books", 9) >>)])),
    TextOf(JObj([type |-> JStr("top-categories"), pageIndex |-> JNum(0)])),
    TopCategoriesText(JNull),
    TopCategoriesText(JNum(0)),
    TopCategoriesText(JStr("")),
    TopCategoriesText(JNum(5)),
    TopCategoriesText(JStr("abc")),
    TopCategoriesText(JObj([category |-> JStr("books"), sum |-> JNum(1)])),
    TopCategoriesText(JArr(<< JNull >>)),
    TopCategoriesText(JArr(<< JNum(5) >>)),
    TopCategoriesText(JArr(<< JObj([category |-> JStr("books")]) >>)),
    TopCategoriesText(JArr(<<>>)),
    TopCategoriesText(JArr(<< Entry("books", 1) >>)),
    TopCategoriesText(JArr(<< Entry("food", 3), Entry("books", 2) >>)) }

\* ws.onmessage: the value of `rows` after the handler, and whether the
\* handler called setRows (a state update, which makes React render again).
\* An exception of JSON.parse or of msg.type is caught.
onmessage(rows, t) ==
  IF parseThrows(t) THEN [rows |-> rows, set |-> FALSE]
  ELSE LET msg == JSONparse(t)
       IN IF propThrows(msg) THEN [rows |-> rows, set |-> FALSE]
          ELSE IF isType(msg, "top-categories") /\ truthy(getProp(msg, "items"))
               THEN [rows |-> getProp(msg, "items"), set |-> TRUE]
               ELSE [rows |-> rows, set |-> FALSE]

\* Rendering throws when rows has no map method (it is not an array), when
\* an element is null (r.category), when an element has no sum
\* (r.sum.toLocaleString()), or when its category is an object (not a valid
\* React child).
renderThrows(rows) ==
  \/ rows.k # "arr"
  \/ \E i \in 1..Len(rows.a) :
       \/ propThrows(rows.a[i])
       \/ propThrows(getProp(rows.a[i], "sum"))
       \/ getProp(rows.a[i], "category").k = "obj"

\* prev.current.get(category): undefined when the category is not a key.
prevGet(prev, category) ==
  IF \E j \in 1..Len(prev) : prev[j][1] = category
  THEN (CHOOSE pr \in {prev[j] : j \in 1..Len(prev)} : pr[1] = category)[2]
  ELSE Undefined

\* rows.map(r => ({ ...r, prev: prev.current.get(r.category) }))
withDelta(rows, prev) ==
  [i \in 1..Len(rows.a) |->
     [category |-> getProp(rows.a[i], "category"),
      sum |-> getProp(rows.a[i], "sum"),
      prev |-> prevGet(prev, getProp(rows.a[i], "category"))]]

\* const isNew = r.prev === undefined
isNew(r) == r.prev = Undefined

delta_reversed(r) == IF r.prev = Undefined THEN 0 ELSE r.prev.n - r.sum.n

\* const delta = r.prev === undefined ? 0 : r.sum - r.prev
delta(r) == IF r.prev = Undefined THEN 0 ELSE r.sum.n - r.prev.n

\* The effect after the commit: prev.current = Map of category -> sum; a
\* later entry of the same category replaces the value of the earlier one.
RECURSIVE nextPrev(_, _, _)
nextPrev(acc, rows, i) ==
  IF i > Len(rows.a) THEN acc
  ELSE LET c == getProp(rows.a[i], "category")
           v == getProp(rows.a[i], "sum")
       IN nextPrev(IF \E j \in 1..Len(acc) : acc[j][1] = c
                   THEN [j \in 1..Len(acc) |-> IF acc[j][1] = c THEN << c, v >> ELSE acc[j]]
                   ELSE Append(acc, << c, v >>),
                   rows, i + 1)

\* ws.close(): a socket that is connecting or open starts closing; its close
\* event comes later.
wsClose(rs) == IF rs \in {"CONNECTING", "OPEN"} THEN "CLOSING" ELSE rs

\* A message arrives while the component is mounted.
ClientMessage(t) ==
  /\ cAlive
  /\ cLast' = t
  /\ cRows' = onmessage(cRows, t).rows
  /\ cDirty' = (cDirty \/ onmessage(cRows, t).set)
  /\ cBefore' = (IF onmessage(cRows, t).set THEN cRows ELSE cBefore)
  /\ UNCHANGED <<cPrev, cShown, cAlive, cConnected, cSock>>
  /\ UNCHANGED <<streamVars, heap, pureVars, serverVars, stepsVars>>

\* React renders the pending state and runs the effect; a render that
\* throws unmounts the component (there is no error boundary).
ClientRender ==
  /\ cAlive
  /\ cDirty
  /\ cDirty' = FALSE
  /\ IF renderThrows(cRows)
     THEN /\ cAlive' = FALSE
          /\ cSock' = [i \in EffectRun |-> wsClose(cSock[i])]
          /\ UNCHANGED <<cPrev, cShown>>
     ELSE /\ cAlive' = TRUE
          /\ cShown' = withDelta(cRows, cPrev)
          /\ cPrev' = nextPrev(<<>>, cRows, 1)
          /\ cSock' = cSock
  /\ UNCHANGED <<cRows, cLast, cConnected, cBefore>>
  /\ UNCHANGED <<streamVars, heap, pureVars, serverVars, stepsVars>>

NextClient ==
  \/ \E t \in ClientTexts : ClientMessage(t)
  \/ ClientRender

\* The component is mounted: nothing of the server side is running here.
InitMounted ==
  /\ InitNoRun
  /\ heap = <<>>
  /\ InitNoCall
  /\ InitNoServer
  /\ InitFirstRun
  /\ InitClient
  /\ InitNoSteps

SpecClient == InitMounted /\ [][NextClient]_vars

(***************************************************************************)
(* The connection of the client: the effect that creates the WebSocket,    *)
(* and the open, close and message events of the sockets it created.       *)
(***************************************************************************)
\* The socket of the most recent run of the effect (0: it has not run).
CurrentSocket ==
  IF \A i \in EffectRun : cSock[i] = "NONE" THEN 0
  ELSE CHOOSE i \in EffectRun :
         /\ cSock[i] # "NONE"
         /\ \A j \in EffectRun : j > i => cSock[j] = "NONE"

\* The effect runs after the component mounted: once in a production build;
\* under StrictMode in a development build it runs, its cleanup closes the
\* socket, which is still connecting, and it runs again.
ConnectionEffect ==
  /\ cAlive
  /\ CurrentSocket = 0
  /\ \E strict \in BOOLEAN :
       cSock' = [i \in EffectRun |->
                   IF strict
                   THEN IF i < StrictRuns THEN wsClose("CONNECTING") ELSE "CONNECTING"
                   ELSE IF i = 1 THEN "CONNECTING" ELSE "NONE"]
  /\ UNCHANGED <<cRows, cPrev, cShown, cAlive, cDirty, cLast, cConnected, cBefore>>
  /\ UNCHANGED <<streamVars, heap, pureVars, serverVars, stepsVars>>

\* setConnected(value) called by a handler of socket ws: a state update of
\* an unmounted component does nothing.
setConnected(ws, alive, old, value) == IF alive THEN value ELSE old

\* ws.onopen
SocketOpens(ws) ==
  /\ cSock[ws] = "CONNECTING"
  /\ cSock' = [cSock EXCEPT ![ws] = "OPEN"]
  /\ cConnected' = setConnected(ws, cAlive, cConnected, TRUE)
  /\ UNCHANGED <<cRows, cPrev, cShown, cAlive, cDirty, cLast, cBefore>>
  /\ UNCHANGED <<streamVars, heap, pureVars, serverVars, stepsVars>>

\* ws.onclose: the connection could not be made, was lost, or its closing
\* has finished.
SocketCloses(ws) ==
  /\ cSock[ws] \in {"CONNECTING", "OPEN", "CLOSING"}
  /\ cSock' = [cSock EXCEPT ![ws] = "CLOSED"]
  /\ cConnected' = setConnected(ws, cAlive, cConnected, FALSE)
  /\ UNCHANGED <<cRows, cPrev, cShown, cAlive, cDirty, cLast, cBefore>>
  /\ UNCHANGED <<streamVars, heap, pureVars, serverVars, stepsVars>>

\* ws.onmessage on an open socket.
SocketMessage(ws, t) ==
  /\ cSock[ws] = "OPEN"
  /\ ClientMessage(t)

NextConnection ==
  \/ ConnectionEffect
  \/ \E ws \in EffectRun : SocketOpens(ws)
  \/ \E ws \in EffectRun : SocketCloses(ws)
  \/ \E ws \in EffectRun, t \in ClientTexts : SocketMessage(ws, t)
  \/ ClientRender

SpecConnection == InitMounted /\ [][NextConnection]_vars

(***************************************************************************)
(* The scripts of Step 2 (collect all pages, group, sum), Step 3 (fold     *)
(* item by item) and Step 4 (aggregate per page, merge page by page), run  *)
(* one after the other on the same finite page stream.                     *)
(***************************************************************************)
StepLimit == 3

\* allOrderPages.flatMap(page => page)
RECURSIVE flattenPages(_)
flattenPages(pages) ==
  IF pages = <<>> THEN <<>> ELSE Head(pages) \o flattenPages(Tail(pages))

\* Step 2: the item sales of the paid orders of all the pages (salesArr).
salesArr(pages) == flatMapSales(SelectSeq(flattenPages(pages), isPaid))

\* Map.groupBy(salesArr, s => s.category): the groups in the order in which
\* their keys first appear, each with its sales in order.
RECURSIVE groupBy(_, _)
groupBy(acc, sales) ==
  IF sales = <<>> THEN acc
  ELSE LET c == Head(sales).category
       IN groupBy(IF \E j \in 1..Len(acc) : acc[j][1] = c
                  THEN [j \in 1..Len(acc) |->
                          IF acc[j][1] = c
                          THEN << c, Append(acc[j][2], Head(sales)) >>
                          ELSE acc[j]]
                  ELSE Append(acc, << c, << Head(sales) >> >>),
                  Tail(sales))

\* arr.reduce((a, s) => a + s.total, 0)
RECURSIVE sumSales(_, _)
sumSales(a, arr) ==
  IF arr = <<>> THEN a ELSE sumSales(a + Head(arr).total, Tail(arr))

\* byCat.entries().map(([category, arr]) => [category, total])
byCatTotals(pages) ==
  LET byCat == groupBy(<<>>, salesArr(pages))
  IN [j \in 1..Len(byCat) |-> << byCat[j][1], sumSales(0, byCat[j][2]) >>]

\* Step 3: what the generator createItemSales yields, in order.
RECURSIVE createItemSales(_)
createItemSales(pages) ==
  IF pages = <<>> THEN <<>>
  ELSE flatMapSales(SelectSeq(Head(pages), isPaid)) \o createItemSales(Tail(pages))

foldSale_appends(totals, sale) == Append(totals, << sale.category, sale.total >>)

\* totals.set(sale.category, (totals.get(sale.category) ?? 0) + sale.total)
foldSale(totals, sale) ==
  MapSet(totals, sale.category, MapGetOrZero(totals, sale.category) + sale.total)

\* Step 4: topNFromMap(finalTotals, 3)
finalTop3 == IF returned = 0 THEN <<>> ELSE topNFromMap(heap, returned, StepLimit)

InitSteps ==
  /\ InitStream
  /\ limit = StepLimit
  /\ InitNoCall
  /\ InitNoServer
  /\ InitFirstRun
  /\ InitClient
  /\ inPages \in UNION { [1..n -> StreamPages] : n \in 0..MaxPages }
  /\ s2Done = FALSE
  /\ s2Totals = <<>>
  /\ s2Top3 = <<>>
  /\ s3Totals = <<>>
  /\ s3Count = 0
  /\ s3Done = FALSE
  /\ s3Top3 = <<>>

\* The script of Step 2, from Array.fromAsync to top3.
Step2Run ==
  /\ ~s2Done
  /\ s2Done' = TRUE
  /\ s2Totals' = byCatTotals(inPages)
  /\ s2Top3' = take(toSorted(byCatTotals(inPages)), 3)
  /\ UNCHANGED <<inPages, s3Totals, s3Count, s3Done, s3Top3>>
  /\ UNCHANGED <<streamVars, heap, pureVars, serverVars, clientVars>>

\* Step 3: one turn of `for await (const sale of itemSales)`.
Step3Item ==
  /\ s2Done /\ ~s3Done
  /\ s3Count < Len(createItemSales(inPages))
  /\ s3Count' = s3Count + 1
  /\ s3Totals' = foldSale(s3Totals, createItemSales(inPages)[s3Count + 1])
  /\ UNCHANGED <<inPages, s2Done, s2Totals, s2Top3, s3Done, s3Top3>>
  /\ UNCHANGED <<streamVars, heap, pureVars, serverVars, clientVars>>

\* Step 3: the generator is exhausted; top3 is ranked.
Step3Rank ==
  /\ s2Done /\ ~s3Done
  /\ s3Count = Len(createItemSales(inPages))
  /\ s3Done' = TRUE
  /\ s3Top3' = take(toSorted(s3Totals), 3)
  /\ UNCHANGED <<inPages, s2Done, s2Totals, s2Top3, s3Totals, s3Count>>
  /\ UNCHANGED <<streamVars, heap, pureVars, serverVars, clientVars>>

\* Step 4: the stream yields its next page.
Step4Page ==
  /\ s3Done
  /\ Len(consumed) < Len(inPages)
  /\ DrawPage(inPages[Len(consumed) + 1], "returns")

\* Step 4: the stream is exhausted; finalTotals is returned.
Step4End ==
  /\ s3Done
  /\ Len(consumed) = Len(inPages)
  /\ StreamEnd

NextSteps ==
  \/ Step2Run
  \/ Step3Item
  \/ Step3Rank
  \/ Step4Page
  \/ Step4End

SpecSteps == InitSteps /\ [][NextSteps]_vars

(***************************************************************************)
(* The helper functions called on their own, on arbitrary small inputs.    *)
(***************************************************************************)
PureCategories == {"books", "food", "tools"}

PureTotals == {0, 1, 2}

\* Every Map over PureCategories with totals in PureTotals, in every
\* insertion order.
PureMaps ==
  UNION { { m \in [1..n -> PureCategories \X PureTotals] :
              \A i, j \in 1..n : i # j => m[i][1] # m[j][1] }
          : n \in 0..Cardinality(PureCategories) }

PureItemLists ==
  { <<>>,
    << LineItem("books", 2, 3) >>,
    << LineItem("books", 1, 2), LineItem("food", 0, 5) >>,
    << LineItem("food", 2, 2), LineItem("food", 1, 1) >>,
    << LineItem("tools", 3, 0), LineItem("books", 1, 1) >> }

PureOrders == { Order(s, its) : s \in Statuses, its \in PureItemLists }

PurePages == UNION { [1..n -> PureOrders] : n \in 0..MaxOrders }

InitPure ==
  /\ InitNoRun
  /\ InitNoServer
  /\ InitFirstRun
  /\ InitClient
  /\ InitNoSteps
  /\ pRet = 0
  /\ pRet2 = 0
  /\ pSnap = <<>>
  /\ pThrew = FALSE
  /\ pDone = FALSE
  /\ \/ /\ pOp = "processPageToSales"
        /\ pPage \in PurePages
        /\ heap = <<>>
        /\ pA = 0 /\ pB = 0 /\ pN = 0
     \/ /\ pOp = "mergeCategoryTotals"
        /\ \E ma, mb \in PureMaps : heap = <<ma, mb>>
        /\ pA = 1
        /\ pB \in {1, 2}
        /\ pPage = <<>> /\ pN = 0
     \/ /\ pOp = "topNFromMap"
        /\ \E m \in PureMaps : heap = <<m>>
        /\ pA = 1
        /\ pN \in -1..MaxLimit
        /\ pPage = <<>> /\ pB = 0
  /\ pHeap0 = heap

CallProcessPageToSales ==
  /\ pOp = "processPageToSales" /\ ~pDone
  /\ LET r == processPageToSales(heap, pPage)
     IN heap' = r.heap /\ pRet' = r.ref
  /\ pDone' = TRUE
  /\ UNCHANGED <<pOp, pPage, pA, pB, pN, pHeap0, pRet2, pSnap, pThrew>>
  /\ UNCHANGED <<streamVars, clientVars, stepsVars>>
  /\ UNCHANGED serverVars

CallMergeCategoryTotals ==
  /\ pOp = "mergeCategoryTotals" /\ ~pDone
  /\ LET r == mergeCategoryTotals(heap, pA, pB)
     IN heap' = r.heap /\ pRet' = r.ref
  /\ pDone' = TRUE
  /\ UNCHANGED <<pOp, pPage, pA, pB, pN, pHeap0, pRet2, pSnap, pThrew>>
  /\ UNCHANGED <<streamVars, clientVars, stepsVars>>
  /\ UNCHANGED serverVars

CallTopNFromMap ==
  /\ pOp = "topNFromMap" /\ ~pDone
  /\ IF takeThrows(pN)
     THEN pThrew' = TRUE /\ pSnap' = pSnap
     ELSE pThrew' = FALSE /\ pSnap' = topNFromMap(heap, pA, pN)
  /\ pDone' = TRUE
  /\ UNCHANGED <<pOp, pPage, pA, pB, pN, pHeap0, pRet, pRet2, heap>>
  /\ UNCHANGED <<streamVars, clientVars, stepsVars>>
  /\ UNCHANGED serverVars

\* After mergeCategoryTotals(a, b): the call with the arguments swapped.
CallMergeSwapped ==
  /\ pOp = "mergeCategoryTotals" /\ pDone /\ pRet2 = 0
  /\ LET r == mergeCategoryTotals(heap, pB, pA)
     IN heap' = r.heap /\ pRet2' = r.ref
  /\ UNCHANGED <<pOp, pPage, pA, pB, pN, pHeap0, pRet, pSnap, pThrew, pDone>>
  /\ UNCHANGED <<streamVars, clientVars, stepsVars>>
  /\ UNCHANGED serverVars

NextPure ==
  \/ CallProcessPageToSales
  \/ CallMergeCategoryTotals
  \/ CallMergeSwapped
  \/ CallTopNFromMap

SpecPure == InitPure /\ [][NextPure]_vars

(***************************************************************************)
(* What the pages delivered so far should add up to, computed from the     *)
(* pages themselves: the sum of qty x unitPrice over the line items of     *)
(* category c in the paid orders of pages 1..Len(pages).                   *)
(***************************************************************************)
PaidItemsOf(pages, c) ==
  UNION { UNION { { <<p, o, i>> : i \in { i \in 1..Len(pages[p][o].items) :
                                             pages[p][o].items[i].category = c } }
                  : o \in { o \in 1..Len(pages[p]) : pages[p][o].status = "paid" } }
          : p \in 1..Len(pages) }

RECURSIVE SumAmounts(_, _)
SumAmounts(pages, S) ==
  IF S = {} THEN 0
  ELSE LET t == CHOOSE t \in S : TRUE
       IN pages[t[1]][t[2]].items[t[3]].qty * pages[t[1]][t[2]].items[t[3]].unitPrice
          + SumAmounts(pages, S \ {t})

ExpectedTotal(pages, c) == SumAmounts(pages, PaidItemsOf(pages, c))

\* Every quantity and unit price of the pages is non-negative.
NonNegative(pages) ==
  \A p \in 1..Len(pages) : \A o \in 1..Len(pages[p]) :
    \A i \in 1..Len(pages[p][o].items) :
      pages[p][o].items[i].qty >= 0 /\ pages[p][o].items[i].unitPrice >= 0

AllCategories == Categories \cup PureCategories

\* The contents of runningTotals before page k was merged.
HistoryBefore(k) == IF k = 1 THEN <<>> ELSE history[k - 1]

SnapshotKeys(snap) == {snap[i][1] : i \in 1..Len(snap)}

Min(a, b) == IF a < b THEN a ELSE b

(***************************************************************************)
(* C1: in a run whose stream has not raised and whose callback has not     *)
(* thrown, onUpdate has been called exactly once per delivered page, with  *)
(* pageIndex 0, 1, ..., n-1 in that order, and every call is followed at   *)
(* once by its return, before any later page, request or call.             *)
(***************************************************************************)
C1_OnUpdateOncePerPageInOrder ==
  error = "none" =>
    LET calls == SelectSeq(events, LAMBDA e : e.ev = "call")
    IN /\ Len(updates) = Len(consumed)
       /\ \A i \in 1..Len(updates) : updates[i].pageIndex = i - 1
       /\ Len(calls) = Len(consumed)
       /\ \A i \in 1..Len(calls) : calls[i].page = i - 1
       /\ \A j \in 1..Len(events) :
            events[j].ev = "call" =>
              /\ j < Len(events)
              /\ events[j + 1] = Ev("return", events[j].page)
              /\ events[j - 1] = Ev("page", events[j].page)

C1_Witness ==
  /\ state = "Completed"
  /\ Len(consumed) = 3
  /\ consumed[1] = PageEmpty
  /\ consumed[2] = PageUnpaid
  /\ updates[3].pageIndex = 2

(***************************************************************************)
(* C2: after each page k, the running total of every category is the sum   *)
(* of qty x unitPrice over the line items of that category in the paid     *)
(* orders of pages 0..k, each page counted once; the running totals the    *)
(* run holds are those after the last page.                                *)
(***************************************************************************)
C2_RunningTotalIsSumOfPaidItems ==
  /\ Len(history) = Len(consumed)
  /\ \A k \in 1..Len(history) : \A c \in Categories :
       MapGetOrZero(history[k], c) = ExpectedTotal(SubSeq(consumed, 1, k), c)
  /\ \A c \in Categories :
       MapGetOrZero(heap[runningTotals], c) = ExpectedTotal(consumed, c)

C2_Witness ==
  /\ consumed = << PageA1, PageB2 >>
  /\ MapGetOrZero(history[1], "books") = 2400
  /\ MapGetOrZero(heap[runningTotals], "books") = 2500

(***************************************************************************)
(* C3: with non-negative quantities and prices, the running total of every *)
(* category after page k+1 is at least its running total after page k, and *)
(* a category present after page k is still present after page k+1.        *)
(***************************************************************************)
C3_TotalsMonotonicKeysKept ==
  \A k \in 1..Len(history) :
    NonNegative(SubSeq(consumed, 1, k)) =>
      \A c \in Categories :
        /\ MapGetOrZero(history[k], c) >= MapGetOrZero(HistoryBefore(k), c)
        /\ MapHas(HistoryBefore(k), c) => MapHas(history[k], c)

C3_Witness ==
  /\ consumed = << PageA1, PageA2, PageB2 >>
  /\ ~MapHas(history[1], "tools") /\ MapHas(history[2], "tools")
  /\ MapGetOrZero(history[3], "books") > MapGetOrZero(history[2], "books")
  /\ MapGetOrZero(history[3], "food") = MapGetOrZero(history[2], "food")

(***************************************************************************)
(* C4: every snapshot passed to onUpdate has at most `limit` entries, and  *)
(* exactly min(limit, number of categories in the running totals).         *)
(***************************************************************************)
C4_SnapshotLengthBounded ==
  \A k \in 1..Len(updates) :
    /\ Len(updates[k].snapshot) <= limit
    /\ k <= Len(history) =>
         Len(updates[k].snapshot) = Min(limit, Cardinality(MapKeys(history[k])))

C4_Witness ==
  /\ Len(updates) = 3
  /\ limit = 3
  /\ Len(updates[1].snapshot) = 2
  /\ Cardinality(MapKeys(history[3])) = 4
  /\ Len(updates[3].snapshot) = 3

(***************************************************************************)
(* C5: the array topNFromMap returns is sorted by total, descending: each  *)
(* entry's total is at least the total of the entry after it.              *)
(***************************************************************************)
C5_SnapshotSortedDescending ==
  (pOp = "topNFromMap" /\ pDone /\ ~pThrew) =>
    \A i \in 1..(Len(pSnap) - 1) : pSnap[i][2] >= pSnap[i + 1][2]

C5_Witness ==
  /\ pOp = "topNFromMap" /\ pDone /\ ~pThrew
  /\ pHeap0[pA] = << <<"food", 1>>, <<"books", 2>>, <<"tools", 1>> >>
  /\ pN = 3
  /\ pSnap = << <<"books", 2>>, <<"food", 1>>, <<"tools", 1>> >>

(***************************************************************************)
(* C6: the snapshot emitted after page k holds categories of the running   *)
(* totals after page k, each once and with its running total, and no       *)
(* category left out has a total strictly greater than one that is in.     *)
(* Scenario A with limit 3: [books 2400, food 1500] after page 1 and       *)
(* [tools 9999, books 2400, food 1500] after page 2.                       *)
(***************************************************************************)
C6_SnapshotHoldsTopCategories ==
  /\ \A k \in 1..Len(updates) :
       LET snap == updates[k].snapshot
       IN /\ k <= Len(history)
          /\ \A i \in 1..Len(snap) :
               /\ MapHas(history[k], snap[i][1])
               /\ snap[i][2] = MapGetOrZero(history[k], snap[i][1])
               /\ \A j \in 1..Len(snap) : snap[i][1] = snap[j][1] => i = j
          /\ \A c \in MapKeys(history[k]) \ SnapshotKeys(snap) :
               \A i \in 1..Len(snap) : MapGetOrZero(history[k], c) <= snap[i][2]
  /\ (limit = 3 /\ Len(updates) >= 2 /\ consumed[1] = PageA1 /\ consumed[2] = PageA2) =>
       /\ updates[1].snapshot = << <<"books", 2400>>, <<"food", 1500>> >>
       /\ updates[2].snapshot =
            << <<"tools", 9999>>, <<"books", 2400>>, <<"food", 1500>> >>

C6_Witness ==
  /\ limit = 3
  /\ consumed = << PageA1, PageA2, PageTie >>
  /\ updates[2].snapshot = << <<"tools", 9999>>, <<"books", 2400>>, <<"food", 1500>> >>
  /\ Len(updates[3].snapshot) = 3
  /\ "food" \notin SnapshotKeys(updates[3].snapshot)

(***************************************************************************)
(* C7: processPageToSales ignores every order whose status is not 'paid':  *)
(* the result has a key exactly for the categories of the line items of    *)
(* paid orders, each with the sum of the paid amounts, so a page without   *)
(* paid orders yields an empty Map; the call returns a new Map.            *)
(***************************************************************************)
C7_UnpaidOrdersIgnored ==
  (pOp = "processPageToSales" /\ pDone) =>
    /\ ~pThrew
    /\ pRet = Len(pHeap0) + 1
    /\ \A c \in AllCategories :
         /\ MapGetOrZero(heap[pRet], c) = ExpectedTotal(<<pPage>>, c)
         /\ MapHas(heap[pRet], c) <=> PaidItemsOf(<<pPage>>, c) # {}
    /\ (\A o \in 1..Len(pPage) : pPage[o].status # "paid") => heap[pRet] = <<>>

C7_Witness ==
  /\ pOp = "processPageToSales" /\ pDone
  /\ pPage = << Order("refunded", << LineItem("food", 2, 2), LineItem("food", 1, 1) >>),
                Order("paid", << LineItem("books", 2, 3) >>) >>
  /\ heap[pRet] = << <<"books", 6>> >>

(***************************************************************************)
(* C8: mergeCategoryTotals(a, b) returns a Map whose keys are those of a   *)
(* and of b, where every key of b has a's value (0 when absent) plus b's   *)
(* value and every key only in a keeps a's value.                          *)
(***************************************************************************)
C8_MergeAddsPerKey ==
  (pOp = "mergeCategoryTotals" /\ pDone) =>
    LET a == pHeap0[pA]
        b == pHeap0[pB]
        r == heap[pRet]
    IN /\ MapKeys(r) = MapKeys(a) \cup MapKeys(b)
       /\ Len(r) = Cardinality(MapKeys(r))
       /\ \A k \in MapKeys(b) : MapGetOrZero(r, k) = MapGetOrZero(a, k) + MapGetOrZero(b, k)
       /\ \A k \in MapKeys(a) \ MapKeys(b) : MapGetOrZero(r, k) = MapGetOrZero(a, k)

C8_Witness ==
  /\ pOp = "mergeCategoryTotals" /\ pDone
  /\ pHeap0[pA] = << <<"books", 2>>, <<"food", 1>> >>
  /\ pHeap0[pB] = << <<"tools", 2>>, <<"books", 1>> >>
  /\ heap[pRet] = << <<"books", 3>>, <<"food", 1>>, <<"tools", 2>> >>

(***************************************************************************)
(* C9: mergeCategoryTotals mutates neither input: after the call every Map *)
(* that existed before it, a and b included, holds the entries it held, in *)
(* the same order, and the result is a Map that did not exist before.      *)
(***************************************************************************)
C9_MergeLeavesInputsUnchanged ==
  (pOp = "mergeCategoryTotals" /\ pDone) =>
    /\ \A r \in 1..Len(pHeap0) : heap[r] = pHeap0[r]
    /\ pRet \notin {pA, pB}
    /\ pRet \notin 1..Len(pHeap0)
    /\ pRet \in 1..Len(heap)

C9_Witness ==
  /\ pOp = "mergeCategoryTotals" /\ pDone
  /\ pA = pB
  /\ heap[pA] = << <<"food", 1>>, <<"books", 2>> >>
  /\ heap[pRet] = << <<"food", 2>>, <<"books", 4>> >>

(***************************************************************************)
(* C10: an empty page leaves the running totals as they were (same keys,   *)
(* same values, same order), and the snapshot emitted for it equals the    *)
(* snapshot emitted for the page before it.                                *)
(***************************************************************************)
C10_EmptyPageChangesNothing ==
  \A k \in 1..Len(consumed) :
    consumed[k] = PageEmpty =>
      /\ k <= Len(history)
      /\ history[k] = HistoryBefore(k)
      /\ (k > 1 /\ k <= Len(updates)) =>
           updates[k].snapshot = updates[k - 1].snapshot

C10_Witness ==
  /\ Len(consumed) = 3
  /\ consumed[1] = PageA2
  /\ consumed[2] = PageEmpty
  /\ consumed[3] = PageEmpty
  /\ limit = 2
  /\ history[3] = << <<"tools", 9999>> >>
  /\ updates[3].snapshot = << <<"tools", 9999>> >>

(***************************************************************************)
(* C11: mergeCategoryTotals is commutative on values: merge(a, b) and      *)
(* merge(b, a) have the same keys and give every key the same total.       *)
(***************************************************************************)
C11_MergeCommutesOnValues ==
  (pOp = "mergeCategoryTotals" /\ pRet2 # 0) =>
    /\ MapKeys(heap[pRet]) = MapKeys(heap[pRet2])
    /\ \A k \in AllCategories :
         MapGetOrZero(heap[pRet], k) = MapGetOrZero(heap[pRet2], k)

C11_Witness ==
  /\ pOp = "mergeCategoryTotals" /\ pRet2 # 0
  /\ pHeap0[pA] = << <<"books", 2>>, <<"food", 1>> >>
  /\ pHeap0[pB] = << <<"tools", 2>>, <<"books", 1>> >>
  /\ heap[pRet] = << <<"books", 3>>, <<"food", 1>>, <<"tools", 2>> >>
  /\ heap[pRet2] = << <<"tools", 2>>, <<"books", 3>>, <<"food", 1>> >>

(***************************************************************************)
(* C12 as stated: topNFromMap called with a limit <= 0 returns an empty    *)
(* sequence without raising.                                               *)
(***************************************************************************)
C12_Original_NonPositiveLimitGivesEmpty ==
  (pOp = "topNFromMap" /\ pDone /\ pN <= 0) => (~pThrew /\ pSnap = <<>>)

(***************************************************************************)
(* C12 as amended: topNFromMap called with limit 0 returns an empty        *)
(* sequence without raising, for every Map; called with a negative limit   *)
(* it raises (the RangeError of Iterator.prototype.take) and returns       *)
(* nothing.                                                                *)
(***************************************************************************)
C12_ZeroGivesEmptyNegativeRaises ==
  (pOp = "topNFromMap" /\ pDone) =>
    /\ pN = 0 => (~pThrew /\ pSnap = <<>>)
    /\ pN < 0 => pThrew
    /\ pThrew => pN < 0

C12_Witness ==
  /\ pOp = "topNFromMap" /\ pDone
  /\ pN = -1
  /\ pThrew
  /\ Len(heap[pA]) = 3

(***************************************************************************)
(* C13: categories with equal running totals are ranked by insertion       *)
(* order, which is the order of first appearance in the page stream        *)
(* (earlier page, or earlier paid line item of the same page): of two tied *)
(* categories the later one is in the snapshot only behind the earlier.    *)
(***************************************************************************)
LexBefore(t, u) ==
  \/ t[1] < u[1]
  \/ t[1] = u[1] /\ t[2] < u[2]
  \/ t[1] = u[1] /\ t[2] = u[2] /\ t[3] < u[3]

AppearsBefore(pages, c, d) ==
  \E t \in PaidItemsOf(pages, c) : \A u \in PaidItemsOf(pages, d) : LexBefore(t, u)

C13_TiesRankedByFirstAppearance ==
  \A k \in 1..Len(updates) :
    LET snap  == updates[k].snapshot
        tot   == history[k]
        pages == SubSeq(consumed, 1, k)
    IN \A c, d \in MapKeys(tot) :
         c # d =>
           /\ MapIndexOf(tot, c) < MapIndexOf(tot, d) <=> AppearsBefore(pages, c, d)
           /\ (/\ MapGetOrZero(tot, c) = MapGetOrZero(tot, d)
               /\ AppearsBefore(pages, c, d)
               /\ d \in SnapshotKeys(snap))
              => /\ c \in SnapshotKeys(snap)
                 /\ MapIndexOf(snap, c) < MapIndexOf(snap, d)

C13_Witness ==
  /\ limit = 2
  /\ consumed = << PageTie, PageA1 >>
  /\ history[2] = << <<"toys", 2400>>, <<"food", 1500>>, <<"books", 2400>> >>
  /\ updates[2].snapshot = << <<"toys", 2400>>, <<"books", 2400>> >>

(***************************************************************************)
(* C14: when the stream ends after n pages the run resolves with the       *)
(* running totals as they stood after the last page: topNFromMap of the    *)
(* returned Map with the same limit is the last emitted snapshot, nothing  *)
(* happens after the run has resolved, and a stream of zero pages returns  *)
(* an empty Map without any onUpdate call.                                 *)
(***************************************************************************)
C14_ResolvesWithFinalTotals ==
  /\ state = "Completed" =>
       /\ returned \in 1..Len(heap)
       /\ heap[returned] = HistoryBefore(Len(consumed) + 1)
       /\ Len(updates) = Len(consumed)
       /\ Len(updates) > 0 =>
            topNFromMap(heap, returned, limit) = updates[Len(updates)].snapshot
       /\ Len(consumed) = 0 => (heap[returned] = <<>> /\ updates = <<>>)
       /\ events[Len(events)] = Ev("done", Len(consumed))
       /\ ~ENABLED Next
  /\ \A j \in 1..Len(events) :
       events[j].ev = "done" => (state = "Completed" /\ j = Len(events))

C14_Witness ==
  /\ state = "Completed"
  /\ limit = 2
  /\ consumed = << PageA1, PageA2 >>
  /\ heap[returned] = << <<"books", 2400>>, <<"food", 1500>>, <<"tools", 9999>> >>
  /\ updates[2].snapshot = << <<"tools", 9999>>, <<"books", 2400>> >>

(***************************************************************************)
(* C15: if the stream raises while page k is drawn, the run rejects with   *)
(* that error and resolves with nothing, onUpdate has been called exactly  *)
(* k times with indices 0..k-1, and nothing happens afterwards: no page is *)
(* requested, no onUpdate is called, nothing is retried.                   *)
(***************************************************************************)
C15_StreamErrorRejectsAndStops ==
  \A j \in 1..Len(events) :
    events[j].ev = "raise" =>
      /\ j = Len(events)
      /\ events[j].page = Len(consumed)
      /\ state = "Failed"
      /\ error = "stream"
      /\ returned = 0
      /\ Len(updates) = Len(consumed)
      /\ \A i \in 1..Len(updates) : updates[i].pageIndex = i - 1
      /\ ~ENABLED Next

C15_Witness ==
  /\ state = "Failed"
  /\ error = "stream"
  /\ consumed = << PageA1, PageA2 >>
  /\ Len(updates) = 2
  /\ events[Len(events)] = Ev("raise", 2)

(***************************************************************************)
(* C16: pages are processed one at a time: a page is delivered only to the *)
(* one outstanding request, and page k+1 is requested only directly after  *)
(* page k was delivered, onUpdate was called for it and has returned.      *)
(***************************************************************************)
C16_OnePageAtATime ==
  /\ events[1] = Ev("request", 0)
  /\ \A j \in 1..Len(events) :
       /\ events[j].ev = "page" =>
            /\ events[j - 1] = Ev("request", events[j].page)
            /\ Len(history) >= events[j].page + 1
       /\ (events[j].ev = "request" /\ j > 1) =>
            /\ j > 3
            /\ events[j - 1].ev = "return"
            /\ events[j - 2].ev = "call"
            /\ events[j - 3] = Ev("page", events[j].page - 1)
       /\ \A i \in 1..Len(events) :
            (i < j /\ events[i].ev = "request" /\ events[j].ev = "request") =>
              \E m \in (i + 1)..(j - 1) : events[m] = Ev("page", events[i].page)

C16_Witness ==
  /\ Len(consumed) = 3
  /\ state = "Streaming"
  /\ events[Len(events)] = Ev("request", 3)
  /\ Len(events) = 13

C18_StepKeepsSnapshotsApart ==
  /\ \A k \in 1..Len(emitted) : emitted'[k] = emitted[k]
  /\ consumed' # consumed =>
       /\ Len(emitted') = Len(emitted) + 1
       /\ \A k \in 1..Len(emitted) :
            /\ objs'[emitted[k]] = objs[emitted[k]]
            /\ emitted'[Len(emitted')] # emitted[k]
       /\ objs'[emitted'[Len(emitted')]] = topNFromMap(heap', runningTotals', limit)
  /\ (consumed' = consumed /\ objs' # objs) =>
       /\ heap' = heap
       /\ runningTotals' = runningTotals
       /\ returned' = returned
       /\ Cardinality({k \in 1..Len(emitted) :
                         objs'[emitted[k]] # objs[emitted[k]]}) = 1
  /\ \A c \in Categories :
       MapGetOrZero(heap'[runningTotals'], c) = ExpectedTotal(consumed', c)
  /\ returned' # 0 => heap'[returned'] = heap'[runningTotals']

C18_SnapshotsIndependent == [][C18_StepKeepsSnapshotsApart]_vars

C18_Witness ==
  /\ state = "Completed"
  /\ limit = 2
  /\ consumed = << PageA1, PageA2 >>
  /\ updates[1].snapshot # <<>>
  /\ objs[emitted[1]] = <<>>
  /\ objs[emitted[2]] = updates[2].snapshot
  /\ updates[2].snapshot = topNFromMap(heap, returned, limit)
  /\ Len(updates[2].snapshot) = 2

(***************************************************************************)
(* C19: in every broadcast, each socket that is in the set and OPEN when   *)
(* the broadcast begins is sent the message, whether or not the send to    *)
(* another socket throws; the sockets whose send succeeded stay in the     *)
(* set, those whose send threw are removed from it; no other socket is     *)
(* sent anything; the broadcast does not throw, so the run never fails;    *)
(* and a send that threw is the last send ever made to that socket.        *)
(***************************************************************************)
C19_BroadcastStep ==
  /\ state' # "Failed"
  /\ error' = "none"
  /\ updates' # updates =>
       LET call == updates'[Len(updates')]
           json == JSONstringify(topCategoriesUpdate(call.snapshot, call.pageIndex))
       IN \A ws \in Sock :
            IF ws \in OpenClients
            THEN /\ Len(sent'[ws]) = Len(sent[ws]) + 1
                 /\ SubSeq(sent'[ws], 1, Len(sent[ws])) = sent[ws]
                 /\ sent'[ws][Len(sent'[ws])].msg = json
                 /\ sent'[ws][Len(sent'[ws])].ok <=> SetHas(clients', ws)
            ELSE /\ sent'[ws] = sent[ws]
                 /\ SetHas(clients', ws) <=> SetHas(clients, ws)
  /\ \A ws \in Sock : \A i \in 1..Len(sent'[ws]) :
       ~sent'[ws][i].ok => (i = Len(sent'[ws]) /\ ~SetHas(clients', ws))

C19_SendFailureIsIsolated == [][C19_BroadcastStep]_vars

C19_Witness ==
  /\ Len(updates) = 2
  /\ clients = << 2 >>
  /\ joinedAt[1] = 0 /\ joinedAt[2] = 0
  /\ Len(sent[1]) = 2
  /\ ~sent[1][2].ok
  /\ sent[1][2].msg.json.pageIndex = 0
  /\ readyState[1] = "OPEN"
  /\ Len(sent[2]) = 3
  /\ \A i \in 1..3 : sent[2][i].ok
  /\ sent[2][2].msg = sent[1][2].msg
  /\ sent[2][3].msg.json.pageIndex = 1
  /\ state = "Streaming"

(***************************************************************************)
(* C20: a socket that connected before the first page of the run and has   *)
(* been in the set and OPEN ever since (no send to it threw, it did not    *)
(* close or fail) has received, after its greeting, exactly the messages   *)
(* of the pages processed so far, one per page, in page order: the k-th    *)
(* is the update built from the k-th snapshot, with pageIndex k-1.         *)
(***************************************************************************)
TopCategoriesReceived(ws) ==
  SelectSeq(sent[ws], LAMBDA a : a.ok /\ a.msg.json.type = "top-categories")

C20_OneMessagePerPageInOrder ==
  \A ws \in Sock :
    (readyState[ws] = "OPEN" /\ SetHas(clients, ws) /\ joinedAt[ws] = 0) =>
      /\ Len(updates) = Len(consumed)
      /\ Len(TopCategoriesReceived(ws)) = Len(consumed)
      /\ \A k \in 1..Len(consumed) :
           /\ TopCategoriesReceived(ws)[k].msg.json.pageIndex = k - 1
           /\ TopCategoriesReceived(ws)[k].msg =
                JSONstringify(topCategoriesUpdate(updates[k].snapshot, k - 1))

C20_Witness ==
  /\ state = "Completed"
  /\ Len(consumed) = 3
  /\ joinedAt[1] = 0 /\ joinedAt[2] = 0
  /\ readyState[2] = "OPEN"
  /\ SetHas(clients, 2)
  /\ ~SetHas(clients, 1)
  /\ Len(sent[1]) = 2 /\ ~sent[1][2].ok
  /\ Len(TopCategoriesReceived(2)) = 3
  /\ TopCategoriesReceived(2)[3].msg.json.pageIndex = 2
  /\ Len(TopCategoriesReceived(2)[3].msg.json.items) = 3

(***************************************************************************)
(* C21: when the close or the error handler of a socket has run, the       *)
(* socket is not in the set; a socket that has left the set never comes    *)
(* back into it and no later send is made to it.  When a socket connects, closes or     *)
(* fails, the membership and the send history of every other socket are    *)
(* left as they are.  And in every broadcast, whatever connected or        *)
(* disconnected before it and whichever sends throw inside it, every       *)
(* socket that is in the set and OPEN is sent the message of that          *)
(* broadcast, and the run goes on.                                         *)
(***************************************************************************)
C21_MembershipStep ==
  /\ \A ws \in Sock : (CloseEvent(ws) \/ ErrorEvent(ws)) => ~SetHas(clients', ws)
  /\ \A ws \in Sock : readyState'[ws] = "CLOSED" => ~SetHas(clients', ws)
  /\ \A ws \in Sock :
       (readyState[ws] # "NONE" /\ ~SetHas(clients, ws)) =>
         /\ ~SetHas(clients', ws)
         /\ sent'[ws] = sent[ws]
  /\ \A ws \in Sock :
       readyState'[ws] # readyState[ws] =>
         \A v \in Sock \ {ws} :
           /\ SetHas(clients', v) <=> SetHas(clients, v)
           /\ sent'[v] = sent[v]
           /\ readyState'[v] = readyState[v]
  /\ updates' # updates =>
       /\ state' = "Streaming"
       /\ \A ws \in OpenClients :
            /\ Len(sent'[ws]) = Len(sent[ws]) + 1
            /\ sent'[ws][Len(sent'[ws])].msg.json.type = "top-categories"
            /\ sent'[ws][Len(sent'[ws])].msg.json.pageIndex = Len(updates)

C21_DisconnectsAreIsolated == [][C21_MembershipStep]_vars

C21_Witness ==
  /\ Len(updates) = 3
  /\ readyState[1] = "CLOSED"
  /\ joinedAt[1] = 0
  /\ Len(sent[1]) = 2
  /\ sent[1][2].ok
  /\ joinedAt[2] = 1
  /\ clients = << 2 >>
  /\ Len(sent[2]) = 3
  /\ sent[2][2].ok /\ sent[2][2].msg.json.pageIndex = 1
  /\ sent[2][3].ok /\ sent[2][3].msg.json.pageIndex = 2

(***************************************************************************)
(* C22: every socket that has connected has been sent the greeting exactly *)
(* once, as the first thing sent to it: every top-categories message sent  *)
(* to it comes after the greeting.  Nothing is sent to a socket that has   *)
(* not connected.                                                          *)
(***************************************************************************)
C22_HelloOnceAndFirst ==
  \A ws \in Sock :
    IF readyState[ws] = "NONE"
    THEN sent[ws] = <<>>
    ELSE /\ Len(sent[ws]) >= 1
         /\ sent[ws][1].msg = JSONstringify(Hello)
         /\ \A i \in 2..Len(sent[ws]) :
              sent[ws][i].msg.json.type = "top-categories"

C22_Witness ==
  /\ Len(updates) = 3
  /\ joinedAt[1] = 0
  /\ joinedAt[2] = 2
  /\ Len(sent[1]) = 4
  /\ Len(sent[2]) = 2
  /\ sent[2][1].msg.json.type = "hello"
  /\ sent[2][2].msg.json.pageIndex = 2
  /\ sent[1][4].msg.json.pageIndex = 2

(***************************************************************************)
(* C23: there is no replay.  The top-categories messages sent to a socket  *)
(* are those of the broadcasts made after it connected, starting with the  *)
(* first such broadcast and with no gap: the i-th has the page index of    *)
(* the i-th broadcast after the connection; none has the index of a page   *)
(* broadcast before.  A socket that is in the set and OPEN has been sent   *)
(* all of them.  A socket that is no longer in the set, or no longer OPEN, *)
(* is sent nothing from then on.                                           *)
(***************************************************************************)
C23_NoReplayStep ==
  /\ \A ws \in Sock : \A i \in 2..Len(sent'[ws]) :
       /\ sent'[ws][i].msg.json.pageIndex = joinedAt'[ws] + i - 2
       /\ sent'[ws][i].msg =
            JSONstringify(topCategoriesUpdate(updates'[joinedAt'[ws] + i - 1].snapshot,
                                              joinedAt'[ws] + i - 2))
  /\ \A ws \in Sock :
       (readyState'[ws] = "OPEN" /\ SetHas(clients', ws)) =>
         Len(sent'[ws]) = 1 + Len(updates') - joinedAt'[ws]
  /\ \A ws \in Sock :
       (readyState[ws] # "NONE" /\ ws \notin OpenClients) => sent'[ws] = sent[ws]

C23_NoReplay == [][C23_NoReplayStep]_vars

C23_Witness ==
  /\ Len(updates) = 3
  /\ joinedAt[1] = 0
  /\ readyState[1] = "CLOSED"
  /\ Len(sent[1]) = 2
  /\ joinedAt[2] = 2
  /\ readyState[2] = "OPEN"
  /\ clients = << 2 >>
  /\ Len(sent[2]) = 2
  /\ sent[2][2].ok
  /\ sent[2][2].msg.json.pageIndex = 2
  /\ state = "Completed"

(***************************************************************************)
(* C24: every run of the server, the first one and every one started by a  *)
(* restart timer after a completed or a failed run, begins with empty      *)
(* running totals, pageIndex 0 and a page stream that starts at the first  *)
(* page; at every point of the run the totals are the sums over the pages  *)
(* of that run only, and the first snapshot of the run has pageIndex 0 and *)
(* is the top-3 of the first page alone.                                   *)
(***************************************************************************)
FirstSnapshotAlone ==
  LET pt == processPageToSales(<< <<>> >>, FetchOrderPages[1])
      m  == mergeCategoryTotals(pt.heap, 1, pt.ref)
  IN topNFromMap(m.heap, m.ref, ServerLimit)

C24_EveryRunStartsFresh ==
  /\ (state = "Idle") =>
       /\ heap[runningTotals] = <<>>
       /\ pageIndex = 0
       /\ consumed = <<>>
       /\ updates = <<>>
  /\ \A k \in 1..Len(consumed) : consumed[k] = FetchOrderPages[k]
  /\ \A c \in Categories :
       MapGetOrZero(heap[runningTotals], c) = ExpectedTotal(consumed, c)
  /\ Len(updates) >= 1 =>
       /\ updates[1].pageIndex = 0
       /\ updates[1].snapshot = FirstSnapshotAlone
       /\ \A i \in 1..Len(updates[1].snapshot) :
            updates[1].snapshot[i][2] =
              ExpectedTotal(<< FetchOrderPages[1] >>, updates[1].snapshot[i][1])

C24_Witness ==
  /\ run = 2
  /\ state = "Streaming"
  /\ Len(updates) = 1
  /\ joinedAt[1] = 0
  /\ Len(sent[1]) = 5
  /\ sent[1][4].msg.json.pageIndex = 2
  /\ sent[1][5].msg.json.pageIndex = 0
  /\ sent[1][5].msg = sent[1][2].msg

(***************************************************************************)
(* C25: a message that is not a well-formed top-categories update (text    *)
(* that is not JSON, a JSON value that is not an object, an unknown type,  *)
(* a hello or an error message, a top-categories message whose items are   *)
(* missing or are not a sequence of {category, sum} entries) leaves the    *)
(* rows as they were, and the component is never unmounted by a render     *)
(* that throws.                                                            *)
(***************************************************************************)
WellFormedItems(v) ==
  /\ v.k = "arr"
  /\ \A i \in 1..Len(v.a) :
       /\ v.a[i].k = "obj"
       /\ getProp(v.a[i], "category").k = "str"
       /\ getProp(v.a[i], "sum").k = "num"

WellFormedUpdate(t) ==
  /\ ~parseThrows(t)
  /\ JSONparse(t).k = "obj"
  /\ isType(JSONparse(t), "top-categories")
  /\ WellFormedItems(getProp(JSONparse(t), "items"))

C25_IgnoredStep ==
  /\ \A t \in ClientTexts :
       (ClientMessage(t) /\ ~WellFormedUpdate(t)) => cRows' = cRows
  /\ cAlive'

C25_MalformedMessagesIgnored == [][C25_IgnoredStep]_vars

(***************************************************************************)
(* C26: every top-categories message sent by the server has the pageIndex  *)
(* the callback was called with for that page, and its items are the       *)
(* snapshot of that call, pair by pair and in the same order, as           *)
(* {category, sum}; so it has at most 3 items, in descending order of sum. *)
(***************************************************************************)
C26_MessageCarriesSnapshot ==
  \A ws \in Sock : \A i \in 2..Len(sent[ws]) :
    LET update == sent[ws][i].msg.json
        call   == updates[joinedAt[ws] + i - 1]
    IN /\ update.type = "top-categories"
       /\ update.pageIndex = call.pageIndex
       /\ Len(update.items) = Len(call.snapshot)
       /\ \A j \in 1..Len(update.items) :
            /\ update.items[j].category = call.snapshot[j][1]
            /\ update.items[j].sum = call.snapshot[j][2]
       /\ Len(update.items) <= 3
       /\ \A j \in 1..(Len(update.items) - 1) :
            update.items[j].sum >= update.items[j + 1].sum

C26_Witness ==
  /\ Len(updates) = 3
  /\ Len(sent[1]) = 4
  /\ sent[1][4].ok
  /\ sent[1][4].msg.json.pageIndex = 2
  /\ sent[1][4].msg.json.items =
       << [category |-> "tools", sum |-> 29999],
          [category |-> "books", sum |-> 10300],
          [category |-> "food", sum |-> 3100] >>
  /\ Len(sent[1][2].msg.json.items) = 3

(***************************************************************************)
(* C27: at every point of Step 4 the running totals, and at every point of *)
(* Step 3 the Map totals, have one entry per distinct category among the   *)
(* paid line items processed so far, each category once; so their size is  *)
(* bounded by the number of categories, however many pages, orders and     *)
(* line items have been processed.                                         *)
(***************************************************************************)
DistinctPaidCategories(pages) == {c \in Categories : PaidItemsOf(pages, c) # {}}

C27_StateIsOneEntryPerCategory ==
  /\ Len(heap[runningTotals]) = Cardinality(DistinctPaidCategories(consumed))
  /\ Cardinality(MapKeys(heap[runningTotals])) = Len(heap[runningTotals])
  /\ Len(s3Totals) =
       Cardinality({createItemSales(inPages)[i].category : i \in 1..s3Count})
  /\ Cardinality(MapKeys(s3Totals)) = Len(s3Totals)
  /\ s3Done => Len(s3Totals) = Cardinality(DistinctPaidCategories(inPages))
  /\ Len(heap[runningTotals]) <= Cardinality(Categories)
  /\ Len(s3Totals) <= Cardinality(Categories)

C27_Witness ==
  /\ state = "Completed"
  /\ Len(consumed) = 3
  /\ s3Done
  /\ s3Count >= 5
  /\ Len(s3Totals) = 2
  /\ Len(heap[runningTotals]) = 2

Ended == state \in {"Completed", "Failed"}

UpdateSentTo(ws) ==
  /\ Len(sent'[ws]) > Len(sent[ws])
  /\ sent'[ws][Len(sent'[ws])].msg.json.type = "top-categories"

C29_CycleStep ==
  /\ (timers' > timers) =>
       /\ Ended
       /\ safe = "awaiting" /\ safe' = "done"
       /\ timers = 0 /\ timers' = 1
       /\ run' = run
  /\ (run' # run) =>
       /\ Ended
       /\ safe = "done" /\ safe' = "awaiting"
       /\ timers = 1 /\ timers' = 0
       /\ run' = run + 1
       /\ state' = "Idle"
  /\ (Ended /\ ~Ended') => run' = run + 1
  /\ \A ws \in Sock : UpdateSentTo(ws) =>
       /\ ~Ended /\ state' = "Streaming"
       /\ run' = run /\ timers = 0 /\ timers' = 0
       /\ Len(sent'[ws]) = Len(sent[ws]) + 1
       /\ sent'[ws][Len(sent'[ws])].msg.json.pageIndex = pageIndex
       /\ pageIndex' = pageIndex + 1

C29_CycleState ==
  /\ timers \in {0, 1}
  /\ (timers = 1) <=> (safe = "done")
  /\ (safe = "done") => Ended
  /\ \A ws \in Sock : \A i \in 2..(Len(sent[ws]) - 1) :
       \/ sent[ws][i + 1].msg.json.pageIndex = sent[ws][i].msg.json.pageIndex + 1
       \/ sent[ws][i + 1].msg.json.pageIndex = 0

C29_RunsNeverOverlap == [](C29_CycleState) /\ [][C29_CycleStep]_vars

C29_Witness ==
  /\ run = 2
  /\ state = "Streaming"
  /\ timers = 0
  /\ Len(sent[1]) = 6
  /\ \A i \in 2..4 : sent[1][i].msg.json.pageIndex = i - 2
  /\ sent[1][5].msg.json.pageIndex = 0
  /\ sent[1][6].msg.json.pageIndex = 1

(***************************************************************************)
(* C30: with timers that fire and a page source that does not stall, a run *)
(* that completed or failed is followed by a new run; and a subscriber     *)
(* that is connected and open gets a top-categories message of that new    *)
(* run, unless the server drops it because a send to it failed, or the new *)
(* run fails before its first page.  The runs are counted up to MaxRuns,   *)
(* so both statements are about the runs before the last one.              *)
(***************************************************************************)
FirstUpdateOfRun(ws, r) ==
  /\ run = r
  /\ Len(updates) = 1
  /\ Len(sent[ws]) >= 2
  /\ sent[ws][Len(sent[ws])] =
       Attempt(JSONstringify(topCategoriesUpdate(updates[1].snapshot, 0)), TRUE)

C30_RestartsAndDelivers ==
  /\ \A r \in 1..(MaxRuns - 1) :
       (run = r /\ Ended) ~> (run = r + 1 /\ state = "Idle")
  /\ \A ws \in 1..LiveClients : \A r \in 1..(MaxRuns - 1) :
       (ws \in OpenClients /\ run = r)
         ~> \/ FirstUpdateOfRun(ws, r + 1)
            \/ ~SetHas(clients, ws)
            \/ (run = r + 1 /\ state = "Failed" /\ updates = <<>>)

C30_Witness ==
  /\ FirstUpdateOfRun(1, 2)
  /\ state = "Streaming"
  /\ Len(sent[1]) = 3
  /\ sent[1][2].msg.json.pageIndex = 0
  /\ sent[1][2].ok

(***************************************************************************)
(* C31: whatever sockets connect, close or fail, and whichever sends       *)
(* throw, the run of the server never fails and ends in Completed, having  *)
(* drawn each page of the stream exactly once, in order, and having called *)
(* onUpdate once for each.                                                 *)
(***************************************************************************)
PagesDrawn == SelectSeq(events, LAMBDA e : e.ev = "page")

C31_RunState ==
  /\ state # "Failed"
  /\ error = "none"
  /\ \A k \in 1..Len(PagesDrawn) : PagesDrawn[k] = Ev("page", k - 1)
  /\ Len(PagesDrawn) = Len(consumed)
  /\ state = "Completed" =>
       /\ consumed = FetchOrderPages
       /\ Len(updates) = Len(FetchOrderPages)
       /\ returned = runningTotals

C31_TerminatesWhateverTheSubscribers ==
  /\ [](C31_RunState)
  /\ <>[](state = "Completed")

C31_Witness ==
  /\ state = "Completed"
  /\ consumed = FetchOrderPages
  /\ Len(sent[1]) = 2 /\ ~sent[1][2].ok
  /\ readyState[2] = "CLOSED"
  /\ Len(sent[2]) = 2 /\ sent[2][2].ok
  /\ clients = <<>>

(***************************************************************************)
(* C32: if onUpdate throws for page k, the run rejects with that error and *)
(* resolves with nothing; the throw is the last thing that happens: page   *)
(* k+1 is never requested, onUpdate is not called again, page k is not     *)
(* drawn again; onUpdate was called k+1 times, the last time with index k; *)
(* and the running totals include page k.                                  *)
(***************************************************************************)
C32_CallbackErrorRejectsAndStops ==
  /\ (error = "callback") <=> (events[Len(events)].ev = "throw")
  /\ \A j \in 1..Len(events) :
       events[j].ev = "throw" =>
         LET k == events[j].page
         IN /\ j = Len(events)
            /\ j > 3
            /\ events[j - 1] = Ev("call", k)
            /\ events[j - 2] = Ev("page", k)
            /\ events[j - 3] = Ev("request", k)
            /\ \A i \in 1..Len(events) :
                 /\ events[i] # Ev("request", k + 1)
                 /\ events[i] = Ev("page", k) => i = j - 2
                 /\ events[i] = Ev("call", k) => i = j - 1
            /\ state = "Failed"
            /\ error = "callback"
            /\ returned = 0
            /\ Len(consumed) = k + 1
            /\ Len(updates) = k + 1
            /\ updates[k + 1].pageIndex = k
            /\ heap[runningTotals] = history[k + 1]
            /\ \A c \in Categories :
                 MapGetOrZero(heap[runningTotals], c) = ExpectedTotal(consumed, c)
            /\ ~ENABLED Next

C32_Witness ==
  /\ state = "Failed"
  /\ error = "callback"
  /\ consumed = << PageA1, PageB2 >>
  /\ Len(updates) = 2
  /\ events[Len(events)] = Ev("throw", 1)
  /\ MapGetOrZero(heap[runningTotals], PageB2[1].items[1].category) > 0

(***************************************************************************)
(* C33: while the component is mounted, once the socket of the most recent *)
(* run of the effect is open, and until it closes, connected is true; in   *)
(* particular the close event of an earlier socket, which the cleanup of   *)
(* the effect closed, does not set connected to false.                     *)
(***************************************************************************)
C33_ConnectedFollowsCurrentSocket ==
  (cAlive /\ CurrentSocket # 0) =>
    (cSock[CurrentSocket] = "OPEN" => cConnected)

(***************************************************************************)
(* C34 (as claimed): when a well-formed update is displayed, a category is *)
(* marked NEW exactly if it is absent from the update received immediately *)
(* before it, otherwise the change shown is its sum minus its sum in that  *)
(* update; and after the display prev maps exactly the categories of the   *)
(* displayed update to their sums.                                         *)
(***************************************************************************)
EntriesOf(rows) ==
  [i \in 1..Len(rows.a) |->
     [category |-> getProp(rows.a[i], "category"), sum |-> getProp(rows.a[i], "sum")]]

LastSum(es, c) ==
  IF \E i \in 1..Len(es) : es[i].category = c
  THEN LET last == CHOOSE i \in 1..Len(es) :
                     /\ es[i].category = c
                     /\ \A j \in 1..Len(es) : es[j].category = c => j <= i
       IN es[last].sum
  ELSE Undefined

ShownAgainst(es, r) ==
  LET p == LastSum(es, r.category)
  IN /\ isNew(r) <=> (p = Undefined)
     /\ delta(r) = (IF p = Undefined THEN 0 ELSE r.sum.n - p.n)

DisplayStep == cAlive /\ cDirty /\ ~cDirty' /\ cAlive' /\ WellFormedItems(cRows)

PrevIsDisplayedUpdate ==
  /\ \A j \in 1..Len(cPrev') : cPrev'[j][2] = LastSum(EntriesOf(cRows), cPrev'[j][1])
  /\ \A i \in 1..Len(cRows.a) :
       \E j \in 1..Len(cPrev') : cPrev'[j][1] = getProp(cRows.a[i], "category")
  /\ \A i, j \in 1..Len(cPrev') : cPrev'[i][1] = cPrev'[j][1] => i = j

C34_DeltaStepAgainstReceived ==
  (DisplayStep /\ WellFormedItems(cBefore)) =>
    /\ Len(cShown') = Len(cRows.a)
    /\ \A i \in 1..Len(cShown') :
         /\ cShown'[i].category = getProp(cRows.a[i], "category")
         /\ cShown'[i].sum = getProp(cRows.a[i], "sum")
         /\ ShownAgainst(EntriesOf(cBefore), cShown'[i])
    /\ PrevIsDisplayedUpdate

C34_DeltaAgainstPrecedingUpdate == [][C34_DeltaStepAgainstReceived]_vars

(***************************************************************************)
(* C34 (amended): when a well-formed update is displayed, a category is    *)
(* marked NEW exactly if it is absent from the update displayed before it, *)
(* otherwise the change shown is its sum minus its sum in the update       *)
(* displayed before it; after the display prev maps exactly the categories *)
(* of the displayed update to their sums.  An update that is followed by   *)
(* another one before React renders is never displayed.                    *)
(***************************************************************************)
C34_DeltaStepAgainstDisplayed ==
  DisplayStep =>
    /\ Len(cShown') = Len(cRows.a)
    /\ \A i \in 1..Len(cShown') :
         /\ cShown'[i].category = getProp(cRows.a[i], "category")
         /\ cShown'[i].sum = getProp(cRows.a[i], "sum")
         /\ ShownAgainst(cShown, cShown'[i])
    /\ PrevIsDisplayedUpdate

C34_DeltaAgainstDisplayedUpdate == [][C34_DeltaStepAgainstDisplayed]_vars

C34_Witness ==
  /\ cAlive /\ ~cDirty
  /\ cBefore = JArr(<< Entry("food", 3), Entry("books", 2) >>)
  /\ cRows = JArr(<< Entry("books", 1) >>)
  /\ Len(cShown) = 1
  /\ cShown[1].prev = JNum(1)
  /\ delta(cShown[1]) = 0
  /\ cPrev = << << JStr("books"), JNum(1) >> >>

(***************************************************************************)
(* C35: when the send of the greeting to a new socket throws, the socket   *)
(* is not left in the set of clients, and the server goes on running: the  *)
(* process does not end, so the other sockets and the run in progress are  *)
(* not affected.                                                           *)
(***************************************************************************)
HelloFailed(ws) == Len(sent[ws]) >= 1 /\ ~sent[ws][1].ok

C35_HelloFailureIsIsolated ==
  /\ ~crashed
  /\ \A ws \in Sock : HelloFailed(ws) => ~SetHas(clients, ws)

====
